---- MODULE Spec2Model ----
(***************************************************************************)
(* Experiment orchestration of SkillBench-PD: case expansion, the thread   *)
(* pool of run_experiment with its checkpoint log, and record assembly.    *)
(*                                                                         *)
(* Python strings are sequences of code points, so that the "|" join of    *)
(* _case_key and the lexicographic order used by list.sort are computed    *)
(* as Python computes them.  A dict is a function whose DOMAIN is the set  *)
(* of its keys.                                                            *)
(***************************************************************************)
EXTENDS Integers, Sequences, FiniteSets, TLC

VARIABLES
    config,            \* BenchmarkConfig: tasks, modes, repetitions, model, judge
    options,           \* ExperimentOptions: models, judges, max_workers, retry_attempts, checkpoint_path, resume
    checkpoint_file,   \* the file at checkpoint_path: NoFile or its sequence of lines
    pc,                \* where run_experiment stands: idle, running, aborting, returned, raised
    all_cases,         \* run_experiment local
    pending_cases,     \* run_experiment local
    existing_records,  \* run_experiment local
    completed_keys,    \* run_experiment local
    results,           \* run_experiment local, the returned list once pc = "returned"
    metadata,          \* the returned metadata dict
    writer,            \* the checkpoint writer: none, open, closed
    futures,           \* one future per pending case, in submission order; a settled
                       \* future also keeps whether its last provider call returned
    yielded,           \* indexes of the futures as_completed has handed out
    provider_failed,   \* history: some provider call of this run raised
    provider_called,   \* history: some provider call of this run was made
    run,               \* number of run_experiment calls started
    previous,          \* history: outcome of the previous run_experiment call
    bench_results,     \* the list built by run_benchmark
    _interval,         \* _RateLimiter._interval, in clock ticks
    _next_allowed,     \* _RateLimiter._next_allowed
    _lock,             \* _RateLimiter._lock: NoThread or the thread holding it
    clock,             \* time.monotonic(), in ticks
    callers,           \* per thread: its position in wait() and its locals
    slots,             \* history: the time slots wait() has granted, in order
    rows,              \* build_regression_report: its results argument
    thresholds,        \* build_regression_report: its RegressionThresholds
    analysis,          \* where build_regression_report stands: idle, comparing, returned
    cursor,            \* number of cells the comparison loops have been through
    comparisons,       \* build_regression_report local
    regressions,       \* build_regression_report local
    report,            \* the returned report
    workers,           \* per pool thread: its case, inference calls made, cases finished
    requests           \* history: the inference requests sent to the provider

experiment_vars ==
    <<config, options, checkpoint_file, pc, all_cases, pending_cases,
      existing_records, completed_keys, results, metadata, writer,
      futures, yielded, provider_failed, provider_called, run, previous,
      bench_results>>

limiter_vars == <<_interval, _next_allowed, _lock, clock, callers, slots>>

analyzer_vars == <<rows, thresholds, analysis, cursor, comparisons, regressions, report>>

request_vars == <<workers, requests>>

vars == <<experiment_vars, limiter_vars, analyzer_vars, request_vars>>

-----------------------------------------------------------------------------
(* Bounds *)

MaxLog == 2        \* lines in the checkpoint file when the first run starts
MaxRuns == 2       \* consecutive run_experiment calls on the same file
MaxReps == 2       \* repetitions drawn for the pure-function specification

-----------------------------------------------------------------------------
(* Strings *)

Pipe == <<124>>                                        \* "|"
EmptyStr == <<>>                                       \* ""
baseline == <<98, 97, 115, 101, 108, 105, 110, 101>>
naive == <<110, 97, 105, 118, 101>>
progressive == <<112, 114, 111, 103, 114, 101, 115, 115, 105, 118, 101>>
rule == <<114, 117, 108, 101>>
llm == <<108, 108, 109>>
t1 == <<116, 49>>                                      \* task paths
t2 == <<116, 50>>
ma == <<109, 97>>                                      \* model names
mb == <<109, 98>>
mock == <<109, 111, 99, 107>>                          \* provider name

ALLOWED_MODES == {baseline, naive, progressive}
ALLOWED_JUDGES == {rule, llm}

Min(a, b) == IF a < b THEN a ELSE b

\* Python's str < str: the first differing code point decides, a proper
\* prefix is smaller.
StrLess(a, b) ==
    \E k \in 1..(Min(Len(a), Len(b)) + 1) :
        /\ \A j \in 1..(k - 1) : a[j] = b[j]
        /\ \/ k > Len(a) /\ k <= Len(b)
           \/ k <= Len(a) /\ k <= Len(b) /\ a[k] < b[k]

\* Python's str(int) for a non-negative int: its decimal digits.
RECURSIVE str(_)
str(n) == IF n < 10 THEN <<48 + n>> ELSE str(n \div 10) \o <<48 + (n % 10)>>

\* Python's sep.join(parts).
RECURSIVE join(_, _)
join(sep, parts) ==
    IF parts = <<>> THEN EmptyStr
    ELSE IF Len(parts) = 1 THEN parts[1]
    ELSE parts[1] \o sep \o join(sep, Tail(parts))

\* dict.get(key, default)
get(record, key, default) == IF key \in DOMAIN record THEN record[key] ELSE default

Range(s) == {s[i] : i \in 1..Len(s)}

-----------------------------------------------------------------------------
(* Identity keys *)

_case_key(task_path, mode, model, judge, iteration) ==
    join(Pipe, <<task_path, mode, model, judge, str(iteration)>>)

_record_key(record) ==
    _case_key(get(record, "task_path", EmptyStr),
              get(record, "mode", EmptyStr),
              get(record, "model", EmptyStr),
              get(record, "judge", EmptyStr),
              get(record, "iteration", 0))

\* A sort key that leaves the iteration out.
_sort_key_without_iteration(record) ==
    <<get(record, "task_path", EmptyStr),
      get(record, "mode", EmptyStr),
      get(record, "model", EmptyStr),
      get(record, "judge", EmptyStr),
      0>>

_sort_key(record) ==
    <<get(record, "task_path", EmptyStr),
      get(record, "mode", EmptyStr),
      get(record, "model", EmptyStr),
      get(record, "judge", EmptyStr),
      get(record, "iteration", 0)>>

CaseKeyOf(case) ==
    _case_key(case.task_path, case.mode, case.model, case.judge, case.iteration)

\* Python's tuple < tuple on two sort keys: four strings, then an int.
SortKeyLess(a, b) ==
    \E k \in 1..5 :
        /\ \A j \in 1..(k - 1) : a[j] = b[j]
        /\ IF k = 5 THEN a[5] < b[5] ELSE StrLess(a[k], b[k])

-----------------------------------------------------------------------------
(* Case expansion *)

ExperimentCase(task_path, mode, model, judge, iteration) ==
    [task_path |-> task_path, mode |-> mode, model |-> model,
     judge |-> judge, iteration |-> iteration]

\* An iteration loop that runs one repetition too many.
RECURSIVE IterationLoopInclusive(_, _, _, _, _, _)
IterationLoopInclusive(task_path, mode, model, judge, iteration, repetitions) ==
    IF iteration > repetitions THEN <<>>
    ELSE <<ExperimentCase(task_path, mode, model, judge, iteration)>>
         \o IterationLoopInclusive(task_path, mode, model, judge, iteration + 1,
                                   repetitions)

\* for iteration in range(repetitions): cases.append(...)
RECURSIVE IterationLoop(_, _, _, _, _, _)
IterationLoop(task_path, mode, model, judge, iteration, repetitions) ==
    IF iteration >= repetitions THEN <<>>
    ELSE <<ExperimentCase(task_path, mode, model, judge, iteration)>>
         \o IterationLoop(task_path, mode, model, judge, iteration + 1, repetitions)

\* A judge loop that walks the declared list backwards.
RECURSIVE JudgeLoopReversed(_, _, _, _, _)
JudgeLoopReversed(task_path, mode, model, judges, repetitions) ==
    IF judges = <<>> THEN <<>>
    ELSE JudgeLoopReversed(task_path, mode, model, Tail(judges), repetitions)
         \o IterationLoop(task_path, mode, model, Head(judges), 0, repetitions)

RECURSIVE JudgeLoop(_, _, _, _, _)
JudgeLoop(task_path, mode, model, judges, repetitions) ==
    IF judges = <<>> THEN <<>>
    ELSE IterationLoop(task_path, mode, model, Head(judges), 0, repetitions)
         \o JudgeLoop(task_path, mode, model, Tail(judges), repetitions)

RECURSIVE ModelLoop(_, _, _, _, _)
ModelLoop(task_path, mode, models, judges, repetitions) ==
    IF models = <<>> THEN <<>>
    ELSE JudgeLoop(task_path, mode, Head(models), judges, repetitions)
         \o ModelLoop(task_path, mode, Tail(models), judges, repetitions)

RECURSIVE ModeLoop(_, _, _, _, _)
ModeLoop(task_path, modes, models, judges, repetitions) ==
    IF modes = <<>> THEN <<>>
    ELSE ModelLoop(task_path, Head(modes), models, judges, repetitions)
         \o ModeLoop(task_path, Tail(modes), models, judges, repetitions)

RECURSIVE TaskLoop(_, _, _, _, _)
TaskLoop(tasks, modes, models, judges, repetitions) ==
    IF tasks = <<>> THEN <<>>
    ELSE ModeLoop(Head(tasks), modes, models, judges, repetitions)
         \o TaskLoop(Tail(tasks), modes, models, judges, repetitions)

_expand_cases(cfg, models, judges) ==
    TaskLoop(cfg.tasks, cfg.modes, models, judges, cfg.repetitions)

\* models = options.models or [config.model]
ResolveModels(cfg, opts) == IF opts.models # <<>> THEN opts.models ELSE <<cfg.model>>

\* judges = options.judges or [config.judge]
ResolveJudges(cfg, opts) == IF opts.judges # <<>> THEN opts.judges ELSE <<cfg.judge>>

-----------------------------------------------------------------------------
(* Record assembly (harness.py) *)

\* The parameters build_record declares.
build_record_params ==
    {"task_path", "task", "mode", "iteration", "prompt", "provider_result",
     "judges", "pricing"}

\* The record build_record returns.  Of its keys only the identity fields
\* are kept: task_id, the sizes, latency, token counts, scores and cost are
\* measurements that neither _record_key nor _sort_key reads.
build_record(task_path, mode, iteration) ==
    [task_path |-> task_path, mode |-> mode, iteration |-> iteration]

\* A Python call build_record(**kwargs): a keyword the function does not
\* declare raises TypeError before the body runs.
call_build_record(kwargs, task_path, mode, iteration) ==
    IF kwargs \subseteq build_record_params
    THEN [ok |-> TRUE, record |-> build_record(task_path, mode, iteration)]
    ELSE [ok |-> FALSE, error |-> "TypeError"]

\* The keywords run_benchmark passes to build_record.
run_benchmark_kwargs ==
    {"task_path", "task", "mode", "iteration", "prompt", "provider_result",
     "judges", "pricing"}

\* The keywords _run_case passes to build_record.
_run_case_kwargs ==
    {"task_path", "task", "mode", "iteration", "prompt", "provider_result",
     "judges", "pricing", "provider_name", "model_name", "judge_name"}

\* for iteration in range(config.repetitions): results.append(build_record(...))
RECURSIVE BenchIterationLoop(_, _, _, _)
BenchIterationLoop(task_path, mode, iteration, repetitions) ==
    IF iteration >= repetitions THEN <<>>
    ELSE <<call_build_record(run_benchmark_kwargs, task_path, mode, iteration)>>
         \o BenchIterationLoop(task_path, mode, iteration + 1, repetitions)

RECURSIVE BenchModeLoop(_, _, _)
BenchModeLoop(task_path, modes, repetitions) ==
    IF modes = <<>> THEN <<>>
    ELSE BenchIterationLoop(task_path, Head(modes), 0, repetitions)
         \o BenchModeLoop(task_path, Tail(modes), repetitions)

RECURSIVE BenchTaskLoop(_, _, _)
BenchTaskLoop(tasks, modes, repetitions) ==
    IF tasks = <<>> THEN <<>>
    ELSE BenchModeLoop(Head(tasks), modes, repetitions)
         \o BenchTaskLoop(Tail(tasks), modes, repetitions)

\* run_benchmark: the outcome of every build_record call, in loop order.
run_benchmark(cfg) == BenchTaskLoop(cfg.tasks, cfg.modes, cfg.repetitions)

\* build_prompt: a mode other than the three it knows raises ValueError.
build_prompt(mode) ==
    IF mode \in {baseline, naive, progressive} THEN [ok |-> TRUE]
    ELSE [ok |-> FALSE, error |-> "ValueError"]

\* evaluate_output: every judge name other than "llm" is scored by rule
\* alone; no judge name makes it raise.
evaluate_output(judge_mode) ==
    [ok |-> TRUE, rule_score |-> TRUE, llm_score |-> (judge_mode = llm)]

\* One pass of the try block of _run_case: the provider call either raises
\* or returns, the output is judged, and then build_record is called.
\* ok = FALSE is the except branch.
_run_case_attempt(case, provider_ok) ==
    IF ~provider_ok THEN [ok |-> FALSE, error |-> "ProviderError"]
    ELSE IF ~evaluate_output(case.judge).ok THEN [ok |-> FALSE, error |-> "JudgeError"]
    ELSE call_build_record(_run_case_kwargs, case.task_path, case.mode, case.iteration)

-----------------------------------------------------------------------------
(* Files under base_dir and configuration checks (harness.py) *)

\* A skill directory: its name and the frontmatter of its SKILL.md.
SkillDir(dirname, name, description) ==
    [dirname |-> dirname, name |-> name, description |-> description]

BrandVoiceDir == SkillDir("brand-voice", "brand-voice", "Brand voice guide")
NoNameDir == SkillDir("no-name", "", "Brand voice guide")
RenamedDir == SkillDir("renamed", "Brand Voice", "Brand voice guide")

\* The task files that exist.
TaskFiles == {t1, t2}

\* load_task: reading a missing file raises.
load_task(path) ==
    IF path \in TaskFiles THEN [ok |-> TRUE] ELSE [ok |-> FALSE, error |-> "FileNotFoundError"]

\* load_skill_definition: raises only when name or description is empty.
load_skill_definition(skill_root) ==
    IF skill_root.name = "" \/ skill_root.description = ""
    THEN [ok |-> FALSE, error |-> "ValueError"]
    ELSE [ok |-> TRUE]

\* SKILL_NAME_RE.fullmatch on the names in use: lowercase words joined by
\* hyphens.
SKILL_NAME_RE(name) == name \in {"brand-voice", "no-name", "renamed"}

\* validate_skill_metadata: TRUE when it returns, FALSE when it raises.
validate_skill_metadata(skill_root) ==
    /\ skill_root.name # ""
    /\ skill_root.description # ""
    /\ SKILL_NAME_RE(skill_root.name)
    /\ skill_root.dirname = skill_root.name

\* validate_config: TRUE when it returns, FALSE when it raises.
validate_config(cfg) ==
    /\ cfg.modes # <<>>
    /\ \A i \in 1..Len(cfg.modes) : cfg.modes[i] \in ALLOWED_MODES
    /\ cfg.tasks # <<>>
    /\ \A i \in 1..Len(cfg.tasks) : cfg.tasks[i] \in TaskFiles
    /\ cfg.repetitions >= 1
    /\ cfg.judge \in ALLOWED_JUDGES
    /\ validate_skill_metadata(cfg.skill_root)

-----------------------------------------------------------------------------
(* Checkpoint log *)

NoFile == [exists |-> FALSE, lines |-> <<>>]
File(lines) == [exists |-> TRUE, lines |-> lines]

JsonLine(record) == [kind |-> "json", record |-> record]   \* json.dumps(record) + "\n"
BlankLine == [kind |-> "blank"]                            \* strips to ""
MalformedLine == [kind |-> "malformed"]                    \* not JSON, e.g. a cut-off line

\* A load that keeps, of the lines with one key, the record of the last.
RECURSIVE LoadLoopKeepLast(_, _, _)
LoadLoopKeepLast(lines, records, keys) ==
    IF lines = <<>> THEN [raised |-> FALSE, records |-> records, keys |-> keys]
    ELSE LET line == Head(lines) IN
         IF line.kind = "blank" THEN LoadLoopKeepLast(Tail(lines), records, keys)
         ELSE IF line.kind = "malformed"
              THEN [raised |-> TRUE, records |-> <<>>, keys |-> {}]
         ELSE LET key == _record_key(line.record) IN
              IF key \in keys
              THEN LoadLoopKeepLast(Tail(lines),
                       [i \in 1..Len(records) |->
                           IF _record_key(records[i]) = key THEN line.record
                           ELSE records[i]],
                       keys)
              ELSE LoadLoopKeepLast(Tail(lines), Append(records, line.record),
                                    keys \cup {key})

RECURSIVE LoadLoop(_, _, _)
LoadLoop(lines, records, keys) ==
    IF lines = <<>> THEN [raised |-> FALSE, records |-> records, keys |-> keys]
    ELSE LET line == Head(lines) IN
         IF line.kind = "blank" THEN LoadLoop(Tail(lines), records, keys)
         ELSE IF line.kind = "malformed"                   \* json.loads raises
              THEN [raised |-> TRUE, records |-> <<>>, keys |-> {}]
         ELSE LET key == _record_key(line.record) IN
              IF key \in keys THEN LoadLoop(Tail(lines), records, keys)
              ELSE LoadLoop(Tail(lines), Append(records, line.record), keys \cup {key})

\* A load that keeps every line, also of a key already seen.
RECURSIVE LoadLoopKeepDuplicates(_, _, _)
LoadLoopKeepDuplicates(lines, records, keys) ==
    IF lines = <<>> THEN [raised |-> FALSE, records |-> records, keys |-> keys]
    ELSE LET line == Head(lines) IN
         IF line.kind = "blank" THEN LoadLoopKeepDuplicates(Tail(lines), records, keys)
         ELSE IF line.kind = "malformed"
              THEN [raised |-> TRUE, records |-> <<>>, keys |-> {}]
         ELSE LoadLoopKeepDuplicates(Tail(lines), Append(records, line.record),
                                     keys \cup {_record_key(line.record)})

_load_checkpoint_keep_duplicates(lines) == LoadLoopKeepDuplicates(lines, <<>>, {})

\* A load that reads nothing from the file.
_load_checkpoint_nothing(lines) == [raised |-> FALSE, records |-> <<>>, keys |-> {}]

_load_checkpoint(lines) == LoadLoop(lines, <<>>, {})

\* A filter that ignores the completed keys.
PendingCasesAll(cases, keys) == cases

\* A filter with the membership test inverted.
PendingCasesInverted(cases, keys) ==
    SelectSeq(cases, LAMBDA case : CaseKeyOf(case) \in keys)

\* pending_cases: the cases whose key is not in completed_keys.
PendingCases(cases, keys) == SelectSeq(cases, LAMBDA case : CaseKeyOf(case) \notin keys)

\* list.sort(key=_sort_key) is stable: a record goes behind the records
\* whose key is not greater.
RECURSIVE SortedInsert(_, _)
SortedInsert(sorted, record) ==
    IF sorted = <<>> THEN <<record>>
    ELSE IF SortKeyLess(_sort_key(record), _sort_key(Head(sorted)))
         THEN <<record>> \o sorted
         ELSE <<Head(sorted)>> \o SortedInsert(Tail(sorted), record)

\* A sort that is left out.
list_sort_skipped(records) == records

RECURSIVE list_sort(_)
list_sort(records) ==
    IF records = <<>> THEN <<>>
    ELSE SortedInsert(list_sort(SubSeq(records, 1, Len(records) - 1)),
                      records[Len(records)])

\* Metadata that takes the reused count as total minus executed.
ResultMetadataByDifference(cases, pending, existing) ==
    [total_cases |-> Len(cases), executed_cases |-> Len(pending),
     reused_cases |-> Len(cases) - Len(pending)]

\* Metadata that counts every expanded case as executed.
ResultMetadataExecutedAll(cases, pending, existing) ==
    [total_cases |-> Len(cases), executed_cases |-> Len(cases),
     reused_cases |-> Len(existing)]

ResultMetadata(cases, pending, existing) ==
    [total_cases |-> Len(cases), executed_cases |-> Len(pending),
     reused_cases |-> Len(existing)]

NoMetadata == [total_cases |-> 0, executed_cases |-> 0, reused_cases |-> 0]

-----------------------------------------------------------------------------
(* Inputs *)

BenchmarkConfig(tasks, modes, repetitions) ==
    [tasks |-> tasks, modes |-> modes, repetitions |-> repetitions,
     provider |-> mock, model |-> ma, judge |-> rule, skill_root |-> BrandVoiceDir]

ExperimentInput(tasks, modes, repetitions, models, judges) ==
    [config |-> BenchmarkConfig(tasks, modes, repetitions),
     models |-> models, judges |-> judges]

\* The configurations run_experiment is started with: one case (model and
\* judge taken from the configuration); two modes, two models or two judges
\* declared in descending order; two repetitions; a task listed twice.
ExperimentInputs ==
    {ExperimentInput(<<t1>>, <<baseline>>, 1, <<>>, <<>>),
     ExperimentInput(<<t1>>, <<progressive, baseline>>, 1, <<ma>>, <<rule>>),
     ExperimentInput(<<t1>>, <<baseline>>, 1, <<mb, ma>>, <<rule>>),
     ExperimentInput(<<t1>>, <<baseline>>, 1, <<ma>>, <<rule, llm>>),
     ExperimentInput(<<t1>>, <<baseline>>, 2, <<ma>>, <<rule>>),
     ExperimentInput(<<t1, t1>>, <<baseline>>, 1, <<ma>>, <<rule>>)}

\* The configurations the pure functions are applied to.
TaskLists == {<<t1>>, <<t1, t2>>, <<t2, t1>>, <<t1, t1>>}
ModeLists == {<<baseline>>, <<baseline, naive>>, <<progressive, baseline>>,
              <<naive, naive>>, <<baseline, naive, progressive>>}
ModelLists == {<<>>, <<ma>>, <<ma, mb>>, <<mb, ma>>}
JudgeLists == {<<>>, <<rule>>, <<rule, llm>>, <<llm, rule>>}

FunctionInputs ==
    {ExperimentInput(tasks, modes, repetitions, models, judges) :
        tasks \in TaskLists, modes \in ModeLists, repetitions \in 1..MaxReps,
        models \in ModelLists, judges \in JudgeLists}

InputOptions(input, max_workers, retry_attempts, checkpoint_path) ==
    [models |-> input.models, judges |-> input.judges,
     max_workers |-> max_workers, retry_attempts |-> retry_attempts,
     checkpoint_path |-> checkpoint_path, resume |-> TRUE]

InputCases(input) ==
    _expand_cases(input.config,
                  IF input.models # <<>> THEN input.models ELSE <<input.config.model>>,
                  IF input.judges # <<>> THEN input.judges ELSE <<input.config.judge>>)

\* The dict a complete checkpoint line of a case holds.
CaseRecord(case) ==
    [task_path |-> case.task_path, mode |-> case.mode, model |-> case.model,
     judge |-> case.judge, iteration |-> case.iteration]

\* Lines a checkpoint file may hold when a run starts: a record of each case
\* of the configuration, a record of a run with more repetitions, a record
\* without model and judge, an empty line and a line that is not JSON.
LogLines(input) ==
    LET cases == InputCases(input) IN
    {JsonLine(CaseRecord(cases[i])) : i \in 1..Len(cases)}
    \cup {JsonLine(CaseRecord([cases[1] EXCEPT !.iteration = input.config.repetitions])),
          JsonLine(build_record(cases[1].task_path, cases[1].mode, 0)),
          BlankLine, MalformedLine}

BoundedSeq(S, n) == UNION {[1..k -> S] : k \in 0..n}

InputFiles(input) == {NoFile} \cup {File(lines) : lines \in BoundedSeq(LogLines(input), MaxLog)}

-----------------------------------------------------------------------------
(* run_experiment *)

NoBench == [status |-> "none", records |-> <<>>]

NoPrevious == [status |-> "none", aborted |-> FALSE, keys |-> {}, file |-> NoFile]

\* The limiter of a run with rate_limit_qps = 0: wait() returns at once.
NoThread == "none"
Threads == {"a", "b"}
IdleCaller == [pc |-> "idle", now |-> 0, sleep_for |-> 0, wake |-> 0, calls |-> 0]

LimiterDisabled ==
    /\ _interval = 0
    /\ _next_allowed = 0
    /\ _lock = NoThread
    /\ clock = 0
    /\ callers = [t \in Threads |-> IdleCaller]
    /\ slots = <<>>

\* Before build_regression_report is called.
NoThresholds == [alpha |-> 0]
NoReport == [passed |-> TRUE, total_records |-> 0, comparison_count |-> 0,
             regression_count |-> 0, comparisons |-> <<>>, regressions |-> <<>>]

AnalyzerIdle ==
    /\ rows = <<>>
    /\ thresholds = NoThresholds
    /\ analysis = "idle"
    /\ cursor = 0
    /\ comparisons = <<>>
    /\ regressions = <<>>
    /\ report = NoReport

\* No pool thread has sent anything to the provider.
IdleWorker == [case |-> 0, inferred |-> 0, finished |-> {}, judging |-> FALSE]

NoRequests ==
    /\ workers = [t \in Threads |-> IdleWorker]
    /\ requests = <<>>

KeysOf(records) == {_record_key(records[i]) : i \in 1..Len(records)}

InitFrom(inputs) ==
    \E input \in inputs, max_workers \in {1, 2}, retry_attempts \in {0, 1},
       checkpoint_path \in BOOLEAN :
        /\ config = input.config
        /\ options = InputOptions(input, max_workers, retry_attempts, checkpoint_path)
        /\ checkpoint_file \in (IF checkpoint_path THEN InputFiles(input) ELSE {NoFile})
        /\ pc = "idle"
        /\ all_cases = <<>>
        /\ pending_cases = <<>>
        /\ existing_records = <<>>
        /\ completed_keys = {}
        /\ results = <<>>
        /\ metadata = NoMetadata
        /\ writer = "none"
        /\ futures = <<>>
        /\ yielded = {}
        /\ provider_failed = FALSE
        /\ provider_called = FALSE
        /\ run = 0
        /\ previous = NoPrevious
        /\ bench_results = NoBench
        /\ LimiterDisabled
        /\ AnalyzerIdle
        /\ NoRequests

Init == InitFrom(ExperimentInputs)

\* if checkpoint_path and options.resume and checkpoint_path.exists()
LoadsCheckpoint(opts, file) == opts.checkpoint_path /\ opts.resume /\ file.exists

\* A clearing condition that leaves the resume flag out.
ClearsCheckpointWhenever(opts, file) == opts.checkpoint_path /\ file.exists

\* elif checkpoint_path and checkpoint_path.exists() and not options.resume
ClearsCheckpoint(opts, file) ==
    ~LoadsCheckpoint(opts, file) /\ opts.checkpoint_path /\ file.exists /\ ~opts.resume

\* max_workers = max(1, int(options.max_workers))
PoolSize(opts) == IF opts.max_workers < 1 THEN 1 ELSE opts.max_workers

\* run_experiment up to the end of the submission loop: loading the skill
\* and the task files, expansion, loading or clearing the checkpoint,
\* pending cases, opening the writer and submitting every pending case.
\* An error of a loader leaves run_experiment before the file is touched.
StartRun(resume) ==
    /\ pc \in {"idle", "returned", "raised"}
    /\ run < MaxRuns
    /\ LET opts == [options EXCEPT !.resume = resume]
           skill == load_skill_definition(config.skill_root)
           task_cache == [i \in 1..Len(config.tasks) |-> load_task(config.tasks[i])]
           cases == _expand_cases(config, ResolveModels(config, opts),
                                  ResolveJudges(config, opts))
           loaded == IF LoadsCheckpoint(opts, checkpoint_file)
                     THEN _load_checkpoint(checkpoint_file.lines)
                     ELSE [raised |-> FALSE, records |-> <<>>, keys |-> {}]
           raised == \/ ~skill.ok
                     \/ \E i \in 1..Len(task_cache) : ~task_cache[i].ok
                     \/ loaded.raised
           pending == PendingCases(cases, loaded.keys)
       IN  /\ options' = opts
           /\ run' = run + 1
           /\ previous' = [status |-> pc, aborted |-> (pc = "raised" /\ futures # <<>>),
                           keys |-> KeysOf(results), file |-> checkpoint_file]
           /\ metadata' = NoMetadata
           /\ yielded' = {}
           /\ provider_failed' = FALSE
           /\ provider_called' = FALSE
           /\ IF raised
              THEN /\ pc' = "raised"
                   /\ all_cases' = <<>>
                   /\ existing_records' = <<>>
                   /\ completed_keys' = {}
                   /\ results' = <<>>
                   /\ pending_cases' = <<>>
                   /\ futures' = <<>>
                   /\ writer' = "none"
                   /\ checkpoint_file' = checkpoint_file
              ELSE /\ pc' = "running"
                   /\ all_cases' = cases
                   /\ existing_records' = loaded.records
                   /\ completed_keys' = loaded.keys
                   /\ results' = loaded.records
                   /\ pending_cases' = pending
                   /\ futures' = [i \in 1..Len(pending) |->
                                     [state |-> "queued", attempt |-> 0]]
                   /\ writer' = IF opts.checkpoint_path THEN "open" ELSE "none"
                   /\ checkpoint_file' =
                          IF ClearsCheckpoint(opts, checkpoint_file) THEN File(<<>>)
                          ELSE IF opts.checkpoint_path THEN File(checkpoint_file.lines)
                          ELSE checkpoint_file
    /\ UNCHANGED <<config, bench_results>>
    /\ UNCHANGED <<limiter_vars, analyzer_vars, request_vars>>

Running == {i \in 1..Len(futures) : futures[i].state = "running"}
Settled == {i \in 1..Len(futures) : futures[i].state \in {"done", "failed"}}

\* A pool thread takes the oldest queued work item and _run_case builds the
\* prompt, outside the try block: an error of build_prompt is the future's
\* error at once.
WorkerStart(i) ==
    /\ pc \in {"running", "aborting"}
    /\ i \in 1..Len(futures)
    /\ futures[i].state = "queued"
    /\ \A j \in 1..(i - 1) : futures[j].state # "queued"
    /\ Cardinality(Running) < PoolSize(options)
    /\ futures' = [futures EXCEPT ![i] =
           IF build_prompt(pending_cases[i].mode).ok
           THEN [state |-> "running", attempt |-> 0, slept |-> <<>>]
           ELSE [state |-> "failed", attempt |-> 0, slept |-> <<>>,
                 error |-> "ValueError", provider_ok |-> FALSE]]
    /\ UNCHANGED <<config, options, checkpoint_file, pc, all_cases, pending_cases,
                   existing_records, completed_keys, results, metadata, writer,
                   yielded, provider_failed, provider_called, run, previous,
                   bench_results>>
    /\ UNCHANGED <<limiter_vars, analyzer_vars, request_vars>>

\* A retry loop that gives up at the first failure.
AttemptWithoutRetry(i, provider_ok) ==
    /\ pc \in {"running", "aborting"}
    /\ i \in 1..Len(futures)
    /\ futures[i].state = "running"
    /\ futures' = [futures EXCEPT ![i] =
           [state |-> "failed", attempt |-> futures[i].attempt,
            slept |-> futures[i].slept,
            error |-> "RuntimeError", provider_ok |-> provider_ok]]
    /\ provider_failed' = (provider_failed \/ ~provider_ok)
    /\ provider_called' = TRUE
    /\ UNCHANGED <<config, options, checkpoint_file, pc, all_cases, pending_cases,
                   existing_records, completed_keys, results, metadata, writer,
                   yielded, run, previous, bench_results>>
    /\ UNCHANGED <<limiter_vars, analyzer_vars, request_vars>>

\* A backoff without its cap.
backoff_uncapped(attempt) == 250 * (2 ^ attempt)

\* backoff = min(2.0, 0.25 * (2**attempt)), in milliseconds
backoff(attempt) == Min(2000, 250 * (2 ^ attempt))

\* One iteration of the retry loop of _run_case, with the time.sleep that
\* follows a failure when a retry is left; slept lists the sleeps of the
\* case so far.
Attempt(i, provider_ok) ==
    /\ pc \in {"running", "aborting"}
    /\ i \in 1..Len(futures)
    /\ futures[i].state = "running"
    /\ LET outcome == _run_case_attempt(pending_cases[i], provider_ok)
           attempt == futures[i].attempt
           slept == futures[i].slept
       IN  futures' = [futures EXCEPT ![i] =
               IF outcome.ok
               THEN [state |-> "done", attempt |-> attempt, slept |-> slept,
                     record |-> outcome.record, provider_ok |-> provider_ok]
               ELSE IF attempt >= options.retry_attempts
                    THEN [state |-> "failed", attempt |-> attempt, slept |-> slept,
                          error |-> "RuntimeError", provider_ok |-> provider_ok]
                    ELSE [state |-> "running", attempt |-> attempt + 1,
                          slept |-> Append(slept, backoff(attempt))]]
    /\ provider_failed' = (provider_failed \/ ~provider_ok)
    /\ provider_called' = TRUE
    /\ UNCHANGED <<config, options, checkpoint_file, pc, all_cases, pending_cases,
                   existing_records, completed_keys, results, metadata, writer,
                   yielded, run, previous, bench_results>>
    /\ UNCHANGED <<limiter_vars, analyzer_vars, request_vars>>

\* One iteration of the as_completed loop: future.result() raises the
\* case's error, or the record is appended, its key added and its line
\* written and flushed.
Drain(i) ==
    /\ pc = "running"
    /\ i \in Settled \ yielded
    /\ yielded' = yielded \cup {i}
    /\ IF futures[i].state = "failed"
       THEN /\ pc' = "aborting"
            /\ UNCHANGED <<results, completed_keys, checkpoint_file>>
       ELSE /\ pc' = pc
            /\ results' = Append(results, futures[i].record)
            /\ completed_keys' = completed_keys \cup {_record_key(futures[i].record)}
            /\ checkpoint_file' =
                   IF writer = "open"
                   THEN File(Append(checkpoint_file.lines, JsonLine(futures[i].record)))
                   ELSE checkpoint_file
    /\ UNCHANGED <<config, options, all_cases, pending_cases, existing_records,
                   metadata, writer, futures, provider_failed, provider_called, run, previous,
                   bench_results>>
    /\ UNCHANGED <<limiter_vars, analyzer_vars, request_vars>>

\* The loop has ended: the pool is shut down, the writer closed, the
\* results sorted and returned with the metadata.
Finish ==
    /\ pc = "running"
    /\ yielded = 1..Len(futures)
    /\ writer' = IF writer = "open" THEN "closed" ELSE writer
    /\ results' = list_sort(results)
    /\ metadata' = ResultMetadata(all_cases, pending_cases, existing_records)
    /\ pc' = "returned"
    /\ UNCHANGED <<config, options, checkpoint_file, all_cases, pending_cases,
                   existing_records, completed_keys, futures, yielded,
                   provider_failed, provider_called, run, previous, bench_results>>
    /\ UNCHANGED <<limiter_vars, analyzer_vars, request_vars>>

\* An abort that leaves the writer as it is.
AbortFinishWriterLeftOpen ==
    /\ pc = "aborting"
    /\ Settled = 1..Len(futures)
    /\ pc' = "raised"
    /\ UNCHANGED <<config, options, checkpoint_file, all_cases, pending_cases,
                   existing_records, completed_keys, results, metadata, writer,
                   futures, yielded, provider_failed, provider_called, run, previous,
                   bench_results>>
    /\ UNCHANGED <<limiter_vars, analyzer_vars, request_vars>>

\* The error leaves the with block once the pool has run every submitted
\* case; the finally clause closes the writer and the error propagates.
AbortFinish ==
    /\ pc = "aborting"
    /\ Settled = 1..Len(futures)
    /\ writer' = IF writer = "open" THEN "closed" ELSE writer
    /\ pc' = "raised"
    /\ UNCHANGED <<config, options, checkpoint_file, all_cases, pending_cases,
                   existing_records, completed_keys, results, metadata, futures,
                   yielded, provider_failed, provider_called, run, previous, bench_results>>
    /\ UNCHANGED <<limiter_vars, analyzer_vars, request_vars>>

Next ==
    \/ \E resume \in BOOLEAN : StartRun(resume)
    \/ \E i \in 1..Len(futures) : WorkerStart(i)
    \/ \E i \in 1..Len(futures), provider_ok \in BOOLEAN : Attempt(i, provider_ok)
    \/ \E i \in 1..Len(futures) : Drain(i)
    \/ Finish
    \/ AbortFinish

Spec == Init /\ [][Next]_vars

-----------------------------------------------------------------------------
(* The retry loop of _run_case under drawn retry counts *)

MaxRetries == 5    \* options.retry_attempts drawn

\* One case; its log is absent or holds any of the lines of InputFiles.
BackoffInput == ExperimentInput(<<t1>>, <<baseline>>, 1, <<>>, <<>>)

InitBackoff ==
    \E retry_attempts \in 0..MaxRetries, checkpoint_path \in BOOLEAN :
        /\ config = BackoffInput.config
        /\ options = InputOptions(BackoffInput, 1, retry_attempts, checkpoint_path)
        /\ checkpoint_file \in
               (IF checkpoint_path THEN InputFiles(BackoffInput) ELSE {NoFile})
        /\ pc = "idle"
        /\ all_cases = <<>>
        /\ pending_cases = <<>>
        /\ existing_records = <<>>
        /\ completed_keys = {}
        /\ results = <<>>
        /\ metadata = NoMetadata
        /\ writer = "none"
        /\ futures = <<>>
        /\ yielded = {}
        /\ provider_failed = FALSE
        /\ provider_called = FALSE
        /\ run = 0
        /\ previous = NoPrevious
        /\ bench_results = NoBench
        /\ LimiterDisabled
        /\ AnalyzerIdle
        /\ NoRequests

SpecBackoff == InitBackoff /\ [][Next]_vars

-----------------------------------------------------------------------------
(* The pure functions applied to drawn configurations *)

InitFunctions ==
    \E input \in FunctionInputs :
        /\ config = input.config
        /\ options = InputOptions(input, 1, 0, FALSE)
        /\ checkpoint_file = NoFile
        /\ pc = "idle"
        /\ all_cases = <<>>
        /\ pending_cases = <<>>
        /\ existing_records = <<>>
        /\ completed_keys = {}
        /\ results = <<>>
        /\ metadata = NoMetadata
        /\ writer = "none"
        /\ futures = <<>>
        /\ yielded = {}
        /\ provider_failed = FALSE
        /\ provider_called = FALSE
        /\ run = 0
        /\ previous = NoPrevious
        /\ bench_results = NoBench
        /\ LimiterDisabled
        /\ AnalyzerIdle
        /\ NoRequests

\* all_cases = _expand_cases(config, models=models, judges=judges)
Expand ==
    /\ all_cases = <<>>
    /\ all_cases' = _expand_cases(config, ResolveModels(config, options),
                                  ResolveJudges(config, options))
    /\ UNCHANGED <<config, options, checkpoint_file, pc, pending_cases,
                   existing_records, completed_keys, results, metadata, writer,
                   futures, yielded, provider_failed, provider_called, run, previous,
      bench_results>>
    /\ UNCHANGED <<limiter_vars, analyzer_vars, request_vars>>

\* run_benchmark(config, provider) with a provider that never fails: the
\* list of records, or the error of the first build_record call that raised.
RunBenchmark ==
    /\ bench_results.status = "none"
    /\ LET outcomes == run_benchmark(config) IN
       bench_results' =
           IF \A i \in 1..Len(outcomes) : outcomes[i].ok
           THEN [status |-> "returned",
                 records |-> [i \in 1..Len(outcomes) |-> outcomes[i].record]]
           ELSE [status |-> "raised", records |-> <<>>]
    /\ UNCHANGED <<config, options, checkpoint_file, pc, all_cases, pending_cases,
                   existing_records, completed_keys, results, metadata, writer,
                   futures, yielded, provider_failed, provider_called, run, previous>>
    /\ UNCHANGED <<limiter_vars, analyzer_vars, request_vars>>

NextFunctions == Expand \/ RunBenchmark

SpecFunctions == InitFunctions /\ [][NextFunctions]_vars

-----------------------------------------------------------------------------
(* run_experiment started with configurations validate_config rejects *)

bogus == <<98, 111, 103, 117, 115>>                    \* neither a mode nor a judge
t3 == <<116, 51>>                                      \* a task path with no file

\* One configuration per check of validate_config that can fail: an unknown
\* mode, an unknown mode next to a known one, an unknown judge, a missing
\* task file, a SKILL.md without a name, a SKILL.md whose name is not the
\* directory's.
InvalidInputs ==
    {ExperimentInput(<<t1>>, <<bogus>>, 1, <<>>, <<>>),
     ExperimentInput(<<t1>>, <<baseline, bogus>>, 1, <<>>, <<>>),
     [ExperimentInput(<<t1>>, <<baseline>>, 1, <<>>, <<>>) EXCEPT !.config.judge = bogus],
     ExperimentInput(<<t3>>, <<baseline>>, 1, <<>>, <<>>),
     [ExperimentInput(<<t1>>, <<baseline>>, 1, <<>>, <<>>)
          EXCEPT !.config.skill_root = NoNameDir],
     [ExperimentInput(<<t1>>, <<baseline>>, 1, <<>>, <<>>)
          EXCEPT !.config.skill_root = RenamedDir]}

InitInvalidConfig == InitFrom(InvalidInputs)

SpecInvalidConfig == InitInvalidConfig /\ [][Next]_vars

-----------------------------------------------------------------------------
(* _load_checkpoint applied to drawn files *)

MaxLines == 3      \* lines of a file _load_checkpoint is applied to

LoadCase(iteration) == ExperimentCase(t1, baseline, ma, rule, iteration)

\* Lines of the drawn files: two records of different keys, a second record
\* with the key of the first (its iteration written as it is, its mode
\* field followed by an output), an empty line and a line cut off by a
\* crash.
CheckpointLines ==
    {JsonLine(CaseRecord(LoadCase(0))),
     JsonLine(CaseRecord(LoadCase(1))),
     JsonLine([task_path |-> t1, mode |-> baseline, model |-> ma, judge |-> rule,
               iteration |-> 0, output |-> t2]),
     BlankLine, MalformedLine}

\* Before run_experiment is called.
NotStarted ==
    /\ pc = "idle"
    /\ all_cases = <<>>
    /\ pending_cases = <<>>
    /\ existing_records = <<>>
    /\ completed_keys = {}
    /\ results = <<>>
    /\ metadata = NoMetadata
    /\ writer = "none"
    /\ futures = <<>>
    /\ yielded = {}
    /\ provider_failed = FALSE
    /\ provider_called = FALSE
    /\ run = 0
    /\ previous = NoPrevious
    /\ bench_results = NoBench

DefaultInput == ExperimentInput(<<t1>>, <<baseline>>, 2, <<>>, <<>>)

InitCheckpoint ==
    /\ config = DefaultInput.config
    /\ options = InputOptions(DefaultInput, 1, 0, TRUE)
    /\ checkpoint_file \in {File(lines) : lines \in BoundedSeq(CheckpointLines, MaxLines)}
    /\ NotStarted
    /\ LimiterDisabled
    /\ AnalyzerIdle
    /\ NoRequests

\* existing_records, completed_keys = _load_checkpoint(checkpoint_path)
LoadCheckpoint ==
    /\ pc = "idle"
    /\ LET outcome == _load_checkpoint(checkpoint_file.lines) IN
           /\ pc' = IF outcome.raised THEN "raised" ELSE "returned"
           /\ existing_records' = outcome.records
           /\ completed_keys' = outcome.keys
    /\ UNCHANGED <<config, options, checkpoint_file, all_cases, pending_cases,
                   results, metadata, writer, futures, yielded, provider_failed,
                   provider_called, run, previous, bench_results>>
    /\ UNCHANGED <<limiter_vars, analyzer_vars, request_vars>>

NextCheckpoint == LoadCheckpoint

SpecCheckpoint == InitCheckpoint /\ [][NextCheckpoint]_vars

-----------------------------------------------------------------------------
(* _RateLimiter.wait called by the pool threads *)

MaxInterval == 2   \* 1/qps in clock ticks; 0 stands for qps <= 0
MaxClock == 4      \* ticks of time.monotonic() that pass
MaxCalls == 2      \* wait() calls a thread makes

Max(a, b) == IF a > b THEN a ELSE b

\* __init__: self._interval = 1.0 / qps if qps > 0 else 0.0
InitLimiter ==
    /\ config = DefaultInput.config
    /\ options = InputOptions(DefaultInput, 2, 0, FALSE)
    /\ checkpoint_file = NoFile
    /\ NotStarted
    /\ _interval \in 0..MaxInterval
    /\ _next_allowed = 0
    /\ _lock = NoThread
    /\ clock = 0
    /\ callers = [t \in Threads |-> IdleCaller]
    /\ slots = <<>>
    /\ AnalyzerIdle
    /\ NoRequests

\* A lock that every thread may take at any time.
LockNeverBlocks == TRUE

\* threading.Lock: free when no thread holds it.
LockFree == _lock = NoThread

\* wait() is entered: if self._interval <= 0: return; sleep_for = 0.0
Call(t) ==
    /\ callers[t].pc = "idle"
    /\ callers[t].calls < MaxCalls
    /\ callers' = [callers EXCEPT ![t] =
           IF _interval <= 0
           THEN [@ EXCEPT !.calls = @ + 1]
           ELSE [@ EXCEPT !.pc = "lock", !.sleep_for = 0]]
    /\ UNCHANGED <<_interval, _next_allowed, _lock, clock, slots>>
    /\ UNCHANGED <<experiment_vars, analyzer_vars, request_vars>>

\* with self._lock:
Acquire(t) ==
    /\ callers[t].pc = "lock"
    /\ LockFree
    /\ _lock' = t
    /\ callers' = [callers EXCEPT ![t].pc = "read"]
    /\ UNCHANGED <<_interval, _next_allowed, clock, slots>>
    /\ UNCHANGED <<experiment_vars, analyzer_vars, request_vars>>

\* now = time.monotonic()
ReadClock(t) ==
    /\ callers[t].pc = "read"
    /\ callers' = [callers EXCEPT ![t].now = clock, ![t].pc = "compare"]
    /\ UNCHANGED <<_interval, _next_allowed, _lock, clock, slots>>
    /\ UNCHANGED <<experiment_vars, analyzer_vars, request_vars>>

\* if now < self._next_allowed: sleep_for = self._next_allowed - now
Compare(t) ==
    /\ callers[t].pc = "compare"
    /\ callers' = [callers EXCEPT
           ![t].sleep_for = IF callers[t].now < _next_allowed
                            THEN _next_allowed - callers[t].now ELSE @,
           ![t].pc = "update"]
    /\ UNCHANGED <<_interval, _next_allowed, _lock, clock, slots>>
    /\ UNCHANGED <<experiment_vars, analyzer_vars, request_vars>>

\* self._next_allowed = max(now, self._next_allowed) + self._interval, and
\* the with block is left.  The slot granted to the call is the time it may
\* proceed at, now + sleep_for.
Update(t) ==
    /\ callers[t].pc = "update"
    /\ _next_allowed' = Max(callers[t].now, _next_allowed) + _interval
    /\ slots' = Append(slots, callers[t].now + callers[t].sleep_for)
    /\ _lock' = NoThread
    /\ callers' = [callers EXCEPT ![t].pc = "sleep"]
    /\ UNCHANGED <<_interval, clock>>
    /\ UNCHANGED <<experiment_vars, analyzer_vars, request_vars>>

\* if sleep_for > 0: time.sleep(sleep_for); otherwise wait() returns.
Sleep(t) ==
    /\ callers[t].pc = "sleep"
    /\ callers' = [callers EXCEPT ![t] =
           IF callers[t].sleep_for > 0
           THEN [@ EXCEPT !.pc = "sleeping", !.wake = clock + callers[t].sleep_for]
           ELSE [@ EXCEPT !.pc = "idle", !.calls = @ + 1]]
    /\ UNCHANGED <<_interval, _next_allowed, _lock, clock, slots>>
    /\ UNCHANGED <<experiment_vars, analyzer_vars, request_vars>>

\* time.sleep returns once the time has passed, and wait() returns.
Wake(t) ==
    /\ callers[t].pc = "sleeping"
    /\ clock >= callers[t].wake
    /\ callers' = [callers EXCEPT ![t].pc = "idle", ![t].calls = @ + 1]
    /\ UNCHANGED <<_interval, _next_allowed, _lock, clock, slots>>
    /\ UNCHANGED <<experiment_vars, analyzer_vars, request_vars>>

\* Time passes.
Tick ==
    /\ clock < MaxClock
    /\ clock' = clock + 1
    /\ UNCHANGED <<_interval, _next_allowed, _lock, callers, slots>>
    /\ UNCHANGED <<experiment_vars, analyzer_vars, request_vars>>

NextLimiter ==
    \/ \E t \in Threads : Call(t)
    \/ \E t \in Threads : Acquire(t)
    \/ \E t \in Threads : ReadClock(t)
    \/ \E t \in Threads : Compare(t)
    \/ \E t \in Threads : Update(t)
    \/ \E t \in Threads : Sleep(t)
    \/ \E t \in Threads : Wake(t)
    \/ Tick

SpecLimiter == InitLimiter /\ [][NextLimiter]_vars

-----------------------------------------------------------------------------
(* The inference requests of _run_case under the rate limiter *)

anthropic == <<97, 110, 116, 104, 114, 111, 112, 105, 99>>

\* evaluate_output sends a request of its own, through llm_score, when the
\* judge is "llm" and the provider is not a MockProvider.
JudgeInfers(judge_mode, provider_name) == judge_mode = llm /\ provider_name # mock

\* One task and mode under the judges "rule" and "llm": two cases.
RequestInput == ExperimentInput(<<t1>>, <<baseline>>, 1, <<>>, <<rule, llm>>)

\* The pool of two threads runs the two cases, without retries, on a mock
\* or an Anthropic provider.
InitRequests ==
    /\ \E provider_name \in {mock, anthropic} :
          config = [RequestInput.config EXCEPT !.provider = provider_name]
    /\ options = InputOptions(RequestInput, 2, 0, FALSE)
    /\ checkpoint_file = NoFile
    /\ NotStarted
    /\ _interval \in 0..MaxInterval
    /\ _next_allowed = 0
    /\ _lock = NoThread
    /\ clock = 0
    /\ callers = [t \in Threads |-> IdleCaller]
    /\ slots = <<>>
    /\ AnalyzerIdle
    /\ NoRequests

\* The cases submitted to the pool, in submission order.
SubmittedCases ==
    _expand_cases(config, ResolveModels(config, options), ResolveJudges(config, options))

\* The cases the pool threads have taken from the queue.
TakenCases == {workers[t].case : t \in Threads} \cup {k \in 1..Len(SubmittedCases) :
                  \E t \in Threads : k \in workers[t].finished}

\* A pool thread takes the oldest queued case and _run_case builds the
\* prompt and creates the provider.
TakeCase(t) ==
    /\ workers[t].case = 0
    /\ \E k \in 1..Len(SubmittedCases) :
          /\ k \notin TakenCases
          /\ \A j \in 1..(k - 1) : j \in TakenCases
          /\ workers' = [workers EXCEPT ![t].case = k]
    /\ UNCHANGED requests
    /\ UNCHANGED <<experiment_vars, limiter_vars, analyzer_vars>>

\* The thread is at rate_limiter.wait() of its case.
EntersWait(t) ==
    /\ workers[t].case # 0
    /\ ~workers[t].judging
    /\ callers[t].calls = workers[t].inferred

\* A thread that goes on to provider.infer(prompt) without its wait().
WaitSkipped(t) ==
    /\ workers[t].case # 0
    /\ callers[t].pc = "idle"
    /\ ~workers[t].judging

\* rate_limiter.wait() of the attempt has returned.
WaitReturned(t) ==
    /\ workers[t].case # 0
    /\ callers[t].pc = "idle"
    /\ ~workers[t].judging
    /\ callers[t].calls = workers[t].inferred + 1

\* rate_limiter.wait() of _run_case
Wait(t) == EntersWait(t) /\ Call(t)

\* The only attempt of the case ends: retry_attempts is 0.
EndAttempt(worker) ==
    [worker EXCEPT !.case = 0, !.judging = FALSE,
                   !.finished = @ \cup {worker.case}]

\* provider_result = provider.infer(prompt): the request of the case is
\* sent; when it raises, the attempt ends in the except branch.
Infer(t, provider_ok) ==
    /\ WaitReturned(t)
    /\ requests' = Append(requests,
           [thread |-> t, kind |-> "case", at |-> clock,
            waits |-> callers[t].calls,
            slot |-> callers[t].now + callers[t].sleep_for])
    /\ workers' = [workers EXCEPT ![t] =
           IF provider_ok
           THEN [@ EXCEPT !.inferred = @ + 1, !.judging = TRUE]
           ELSE EndAttempt([@ EXCEPT !.inferred = @ + 1])]
    /\ UNCHANGED <<experiment_vars, limiter_vars, analyzer_vars>>

\* judges = evaluate_output(task, provider_result.output, case.judge,
\* provider); the attempt then ends with the call of build_record.
Evaluate(t) ==
    /\ workers[t].judging
    /\ requests' =
           IF JudgeInfers(SubmittedCases[workers[t].case].judge, config.provider)
           THEN Append(requests,
                    [thread |-> t, kind |-> "judge", at |-> clock,
                     waits |-> callers[t].calls,
                     slot |-> callers[t].now + callers[t].sleep_for])
           ELSE requests
    /\ workers' = [workers EXCEPT ![t] = EndAttempt(@)]
    /\ UNCHANGED <<experiment_vars, limiter_vars, analyzer_vars>>

NextRequests ==
    \/ \E t \in Threads : TakeCase(t)
    \/ \E t \in Threads : Wait(t)
    \/ \E t \in Threads : Acquire(t)
    \/ \E t \in Threads : ReadClock(t)
    \/ \E t \in Threads : Compare(t)
    \/ \E t \in Threads : Update(t)
    \/ \E t \in Threads : Sleep(t)
    \/ \E t \in Threads : Wake(t)
    \/ Tick
    \/ \E t \in Threads, provider_ok \in BOOLEAN : Infer(t, provider_ok)
    \/ \E t \in Threads : Evaluate(t)

SpecRequests == InitRequests /\ [][NextRequests]_vars

-----------------------------------------------------------------------------
(* Regression analysis (regression.py)                                     *)
(*                                                                         *)
(* A Python float is the exact fraction it stands for, kept in lowest      *)
(* terms with a positive denominator; the rounding of float arithmetic and *)
(* the round(x, 6) of the report fields are left out, so a field of a      *)
(* comparison holds the value its verdict was computed from.  None is a    *)
(* record no fraction is equal to.  random.Random(seed) is any stream of   *)
(* draws.                                                                  *)

MaxBootstrap == 2      \* thresholds.bootstrap_samples drawn
MaxPermutations == 2   \* thresholds.permutation_samples drawn

None == [none |-> TRUE]

Abs(n) == IF n < 0 THEN -n ELSE n

RECURSIVE GCD(_, _)
GCD(a, b) == IF b = 0 THEN a ELSE GCD(b, a % b)

Fraction(num, den) ==
    LET g == GCD(Abs(num), Abs(den))
        s == IF den < 0 THEN -1 ELSE 1
    IN  [num |-> (s * num) \div g, den |-> (s * den) \div g]

\* float(value) of an int
float(value) == Fraction(value, 1)

Add(a, b) == Fraction(a.num * b.den + b.num * a.den, a.den * b.den)
Sub(a, b) == Fraction(a.num * b.den - b.num * a.den, a.den * b.den)
Mul(a, b) == Fraction(a.num * b.num, a.den * b.den)
Div(a, b) == Fraction(a.num * b.den, a.den * b.num)
Neg(a) == Fraction(-a.num, a.den)
abs(a) == Fraction(Abs(a.num), a.den)
Leq(a, b) == a.num * b.den <= b.num * a.den

\* int(x): truncation towards zero
int(x) == IF x.num >= 0 THEN x.num \div x.den ELSE -((-x.num) \div x.den)

RECURSIVE sum(_)
sum(values) == IF values = <<>> THEN float(0) ELSE Add(Head(values), sum(Tail(values)))

\* statistics.fmean of a non-empty list
fmean(values) == Div(sum(values), float(Len(values)))

\* list.sort() of a list of floats
RECURSIVE sort(_)
sort(values) ==
    IF values = <<>> THEN <<>>
    ELSE LET least == CHOOSE i \in 1..Len(values) :
                          \A j \in 1..Len(values) : Leq(values[i], values[j])
         IN  <<values[least]>>
             \o sort([k \in 1..(Len(values) - 1) |->
                         IF k < least THEN values[k] ELSE values[k + 1]])

\* The lists a resampling with replacement can draw from values,
\* [values[rng.randrange(len(values))] for _ in values], each up to the
\* order of its elements: only its mean is taken.
Resamples(values) ==
    {[i \in 1..Len(values) |-> values[pick[i]]] :
        pick \in {f \in [1..Len(values) -> 1..Len(values)] :
                     \A i, j \in 1..Len(values) : i < j => f[i] <= f[j]}}

\* The orders rng.shuffle can leave a list in, each up to the order
\* within merged[:base_size] and within merged[base_size:]: only the means
\* of the two parts are taken.
Shuffles(merged, base_size) ==
    {[i \in 1..Len(merged) |-> merged[pick[i]]] :
        pick \in {f \in [1..Len(merged) -> 1..Len(merged)] :
                     /\ \A i, j \in 1..Len(merged) : i # j => f[i] # f[j]
                     /\ \A i, j \in 1..base_size : i < j => f[i] < f[j]
                     /\ \A i, j \in (base_size + 1)..Len(merged) :
                            i < j => f[i] < f[j]}}

\* The random draws a comparison may consume: one pair of resamples per
\* bootstrap round, then one shuffled list per permutation round.
RandomStreams(baseline_values, candidate_values, limits) ==
    [resamples :
        IF limits.bootstrap_samples <= 1 THEN {<<>>}
        ELSE [1..limits.bootstrap_samples ->
                 [sample_base : Resamples(baseline_values),
                  sample_candidate : Resamples(candidate_values)]],
     shuffles :
        IF limits.permutation_samples <= 1 THEN {<<>>}
        ELSE [1..limits.permutation_samples ->
                 Shuffles(baseline_values \o candidate_values,
                          Len(baseline_values))]]

\* low_index = max(0, min(samples - 1, int(tail * samples)))
LowIndex(tail, samples) ==
    Max(0, Min(samples - 1, int(Mul(tail, float(samples)))))

\* high_index = max(0, min(samples - 1, int((1.0 - tail) * samples) - 1))
HighIndex(tail, samples) ==
    Max(0, Min(samples - 1, int(Mul(Sub(float(1), tail), float(samples))) - 1))

bootstrap_delta_ci(baseline_values, candidate_values, confidence, samples, rng) ==
    IF baseline_values = <<>> \/ candidate_values = <<>>
    THEN [ci_low |-> float(0), ci_high |-> float(0)]
    ELSE IF samples <= 1
    THEN LET delta == Sub(fmean(candidate_values), fmean(baseline_values))
         IN  [ci_low |-> delta, ci_high |-> delta]
    ELSE LET diffs == sort([i \in 1..samples |->
                              Sub(fmean(rng.resamples[i].sample_candidate),
                                  fmean(rng.resamples[i].sample_base))])
             tail == Div(Sub(float(1), confidence), float(2))
             low_index == LowIndex(tail, samples)
             high_index == HighIndex(tail, samples)
         IN  [ci_low |-> diffs[low_index + 1], ci_high |-> diffs[high_index + 1]]

\* A p-value without the add-one smoothing.
p_value_unsmoothed(extreme, samples) == Fraction(extreme, samples)

\* (extreme + 1) / (samples + 1)
p_value_smoothed(extreme, samples) == Fraction(extreme + 1, samples + 1)

permutation_test_p_value(baseline_values, candidate_values, samples, rng) ==
    IF baseline_values = <<>> \/ candidate_values = <<>> THEN float(1)
    ELSE IF samples <= 1 THEN float(1)
    ELSE LET observed == abs(Sub(fmean(candidate_values), fmean(baseline_values)))
             base_size == Len(baseline_values)
             perm_delta(merged) ==
                 abs(Sub(fmean(SubSeq(merged, base_size + 1, Len(merged))),
                         fmean(SubSeq(merged, 1, base_size))))
             extreme == Cardinality({i \in 1..samples :
                                        Leq(observed, perm_delta(rng.shuffles[i]))})
         IN  p_value_smoothed(extreme, samples)

_sample_variance(values) ==
    IF Len(values) < 2 THEN float(0)
    ELSE LET mean_value == fmean(values)
         IN  Div(sum([i \in 1..Len(values) |->
                         Mul(Sub(values[i], mean_value), Sub(values[i], mean_value))]),
                 float(Len(values) - 1))

\* x * |x|: the square of x with the sign of x.  Cohen's d divides by a
\* square root, so it is kept as sign(d) * d^2, which is zero, positive or
\* negative as d is and orders absolute values as d does.
SignedSquare(x) == Mul(x, abs(x))

\* The signed square of cohens_d(sample_a, sample_b).
cohens_d(sample_a, sample_b) ==
    IF sample_a = <<>> \/ sample_b = <<>> THEN float(0)
    ELSE LET mean_a == fmean(sample_a)
             mean_b == fmean(sample_b)
             var_a == _sample_variance(sample_a)
             var_b == _sample_variance(sample_b)
             pooled_denom == Len(sample_a) + Len(sample_b) - 2
         IN  IF pooled_denom <= 0 THEN float(0)
             ELSE LET pooled_var ==
                          Div(Add(Mul(float(Len(sample_a) - 1), var_a),
                                  Mul(float(Len(sample_b) - 1), var_b)),
                              float(pooled_denom))
                  IN  IF Leq(pooled_var, float(0)) THEN float(0)
                      ELSE Div(SignedSquare(Sub(mean_a, mean_b)), pooled_var)

\* significant = p_value <= thresholds.alpha
Significant(p_value, limits) == Leq(p_value, limits.alpha)

\* effect_ok = abs(effect_size) >= thresholds.min_effect_size, on the
\* signed squares.
EffectOk(effect_size, limits) ==
    Leq(SignedSquare(limits.min_effect_size), abs(effect_size))

\* A verdict that takes significance or effect size alone as enough.
_flag_regression_either(metric, delta, delta_pct, significant, effect_ok, limits) ==
    IF metric = "latency_ms"
    THEN delta_pct # None /\ Leq(limits.latency_regression_pct, delta_pct)
         /\ (significant \/ effect_ok)
    ELSE IF metric = "cost_usd"
    THEN delta_pct # None /\ Leq(limits.cost_regression_pct, delta_pct)
         /\ (significant \/ effect_ok)
    ELSE IF metric = "rule_score"
    THEN Leq(delta, Neg(limits.rule_score_drop)) /\ (significant \/ effect_ok)
    ELSE FALSE

\* The flag _flag_regression returns; the reason string is non-empty
\* exactly when the flag is set.
_flag_regression(metric, delta, delta_pct, significant, effect_ok, limits) ==
    IF metric = "latency_ms"
    THEN delta_pct # None /\ Leq(limits.latency_regression_pct, delta_pct)
         /\ significant /\ effect_ok
    ELSE IF metric = "cost_usd"
    THEN delta_pct # None /\ Leq(limits.cost_regression_pct, delta_pct)
         /\ significant /\ effect_ok
    ELSE IF metric = "rule_score"
    THEN Leq(delta, Neg(limits.rule_score_drop)) /\ significant /\ effect_ok
    ELSE FALSE

metrics == <<"latency_ms", "rule_score", "cost_usd">>

baseline_mode == baseline

\* group = (str(row.get("task_id", "")), str(row.get("model", "")),
\*          str(row.get("judge", "")))
GroupOf(row) ==
    <<get(row, "task_id", EmptyStr), get(row, "model", EmptyStr),
      get(row, "judge", EmptyStr)>>

ModeOf(row) == get(row, "mode", EmptyStr)

\* The list grouped[group][mode][metric]: the numeric values of the metric
\* in the rows of the group and mode, in row order.  A value that is not a
\* number is a key the row does not have.
RECURSIVE Samples(_, _, _, _)
Samples(records, group, mode, metric) ==
    IF records = <<>> THEN <<>>
    ELSE LET row == Head(records)
             rest == Samples(Tail(records), group, mode, metric)
         IN  IF GroupOf(row) = group /\ ModeOf(row) = mode /\ metric \in DOMAIN row
             THEN <<float(row[metric])>> \o rest
             ELSE rest

\* The dict built by the first loop of build_regression_report.
grouped(records) ==
    LET groups == {GroupOf(records[i]) : i \in 1..Len(records)}
        modes(group) == {ModeOf(records[i]) :
                            i \in {j \in 1..Len(records) : GroupOf(records[j]) = group}}
    IN  [group \in groups |->
            [mode \in modes(group) |->
                [metric \in {m \in Range(metrics) :
                                Samples(records, group, mode, m) # <<>>} |->
                    Samples(records, group, mode, metric)]]]

\* Python's tuple < tuple on tuples of strings of one length.
TupleLess(a, b) ==
    \E k \in 1..Len(a) :
        /\ \A j \in 1..(k - 1) : a[j] = b[j]
        /\ StrLess(a[k], b[k])

\* sorted(grouped.items()): the group keys in ascending order
RECURSIVE SortedGroups(_)
SortedGroups(groups) ==
    IF groups = {} THEN <<>>
    ELSE LET least == CHOOSE g \in groups : \A h \in groups \ {g} : TupleLess(g, h)
         IN  <<least>> \o SortedGroups(groups \ {least})

\* sorted(mode_map.items()): the modes in ascending order
RECURSIVE SortedModes(_)
SortedModes(modes) ==
    IF modes = {} THEN <<>>
    ELSE LET least == CHOOSE m \in modes : \A n \in modes \ {m} : StrLess(m, n)
         IN  <<least>> \o SortedModes(modes \ {least})

\* A mode loop that compares the baseline mode with itself as well.
SkipsNoMode(mode) == FALSE

\* if mode == baseline_mode: continue
SkipsMode(mode) == mode = baseline_mode

\* for metric in metrics: the cells that reach the comparison
RECURSIVE MetricLoop(_, _, _, _)
MetricLoop(group_key, mode_map, mode, k) ==
    IF k > Len(metrics) THEN <<>>
    ELSE LET metric == metrics[k]
             baseline_values == get(mode_map[baseline_mode], metric, <<>>)
             candidate_values == get(mode_map[mode], metric, <<>>)
             rest == MetricLoop(group_key, mode_map, mode, k + 1)
         IN  IF baseline_values = <<>> \/ candidate_values = <<>> THEN rest
             ELSE <<[group_key |-> group_key, mode |-> mode, metric |-> metric,
                     baseline_values |-> baseline_values,
                     candidate_values |-> candidate_values]>> \o rest

\* for mode, metric_map in sorted(mode_map.items())
RECURSIVE CandidateLoop(_, _, _)
CandidateLoop(group_key, mode_map, modes) ==
    IF modes = <<>> THEN <<>>
    ELSE IF SkipsMode(Head(modes)) THEN CandidateLoop(group_key, mode_map, Tail(modes))
    ELSE MetricLoop(group_key, mode_map, Head(modes), 1)
         \o CandidateLoop(group_key, mode_map, Tail(modes))

\* for group_key, mode_map in sorted(grouped.items())
RECURSIVE GroupLoop(_, _)
GroupLoop(groups, group_keys) ==
    IF group_keys = <<>> THEN <<>>
    ELSE LET mode_map == groups[Head(group_keys)]
             baseline_metrics == get(mode_map, baseline_mode, <<>>)
             rest == GroupLoop(groups, Tail(group_keys))
         IN  IF DOMAIN baseline_metrics = {} THEN rest
             ELSE CandidateLoop(Head(group_keys), mode_map,
                                SortedModes(DOMAIN mode_map)) \o rest

\* The cells the loops of build_regression_report compare, in loop order.
Cells(records) == GroupLoop(grouped(records), SortedGroups(DOMAIN grouped(records)))

\* A percentage that is zero over a zero baseline mean.
delta_pct_or_zero(delta, baseline_mean) ==
    IF baseline_mean # float(0)
    THEN Mul(Div(delta, abs(baseline_mean)), float(100))
    ELSE float(0)

\* delta_pct = None; if baseline_mean != 0: delta_pct = ...
delta_pct_of(delta, baseline_mean) ==
    IF baseline_mean # float(0)
    THEN Mul(Div(delta, abs(baseline_mean)), float(100))
    ELSE None

\* The body of the innermost loop for one cell: the comparison dict.
Comparison(cell, limits, rng) ==
    LET baseline_mean == fmean(cell.baseline_values)
        candidate_mean == fmean(cell.candidate_values)
        delta == Sub(candidate_mean, baseline_mean)
        delta_pct == delta_pct_of(delta, baseline_mean)
        ci == bootstrap_delta_ci(cell.baseline_values, cell.candidate_values,
                                 limits.confidence, limits.bootstrap_samples, rng)
        p_value == permutation_test_p_value(cell.baseline_values, cell.candidate_values,
                                            limits.permutation_samples, rng)
        effect_size == cohens_d(cell.candidate_values, cell.baseline_values)
        significant == Significant(p_value, limits)
        effect_ok == EffectOk(effect_size, limits)
        regression_flag == _flag_regression(cell.metric, delta, delta_pct,
                                            significant, effect_ok, limits)
    IN  [task_id |-> cell.group_key[1], model |-> cell.group_key[2],
         judge |-> cell.group_key[3], metric |-> cell.metric,
         baseline_mode |-> baseline_mode, candidate_mode |-> cell.mode,
         baseline_mean |-> baseline_mean, candidate_mean |-> candidate_mean,
         delta |-> delta, delta_pct |-> delta_pct,
         ci_low |-> ci.ci_low, ci_high |-> ci.ci_high,
         p_value |-> p_value, effect_size |-> effect_size,
         significant |-> significant, regression |-> regression_flag,
         n_baseline |-> Len(cell.baseline_values),
         n_candidate |-> Len(cell.candidate_values)]

\* A report that always passes.
ReportAlwaysPassed(records, compared, flagged) ==
    [total_records |-> Len(records), comparison_count |-> Len(compared),
     regression_count |-> Len(flagged), passed |-> TRUE,
     comparisons |-> compared, regressions |-> flagged]

\* The report dict, without its time stamp and its copy of the thresholds.
Report(records, compared, flagged) ==
    [total_records |-> Len(records), comparison_count |-> Len(compared),
     regression_count |-> Len(flagged), passed |-> (Len(flagged) = 0),
     comparisons |-> compared, regressions |-> flagged]

\* RegressionThresholds, without the seed.
Thresholds(alpha, min_effect_size, bootstrap_samples, permutation_samples, confidence) ==
    [latency_regression_pct |-> float(50), cost_regression_pct |-> float(50),
     rule_score_drop |-> Fraction(1, 2), alpha |-> alpha,
     min_effect_size |-> min_effect_size, bootstrap_samples |-> bootstrap_samples,
     permutation_samples |-> permutation_samples, confidence |-> confidence]

\* The thresholds the report is built under: every significance level and
\* minimum effect size with every permutation count and a point interval,
\* and every confidence level with every bootstrap count.
ThresholdInputs ==
    {Thresholds(alpha, min_effect_size, 0, permutation_samples, Fraction(19, 20)) :
        alpha \in {float(0), Fraction(1, 2), float(1)},
        min_effect_size \in {float(0), float(1)},
        permutation_samples \in 0..MaxPermutations}
    \cup {Thresholds(float(1), float(0), bootstrap_samples, 0, confidence) :
        bootstrap_samples \in 0..MaxBootstrap,
        confidence \in {float(0), Fraction(1, 2), Fraction(19, 20), float(1)}}

\* A result record of model ma and judge rule with the given metrics.
Row(task_id, mode, values) ==
    [task_id |-> task_id, model |-> ma, judge |-> rule, mode |-> mode] @@ values

\* The result lists the report is built from: no record; one sample a side;
\* a baseline of mean zero; a single candidate sample against two baseline
\* samples; samples without variance; two samples a side; a group without
\* baseline records; a baseline record without any metric; a candidate
\* that lacks a metric of the baseline; two groups listed in descending
\* order with two candidate modes and the three metrics, one of them
\* without baseline samples in its group.
ResultLists ==
    {<<>>,
     <<Row(t1, baseline, [latency_ms |-> 2]), Row(t1, progressive, [latency_ms |-> 4])>>,
     <<Row(t1, baseline, [latency_ms |-> 0]), Row(t1, progressive, [latency_ms |-> 5])>>,
     <<Row(t1, baseline, [latency_ms |-> 1]), Row(t1, progressive, [latency_ms |-> 5]),
       Row(t1, baseline, [latency_ms |-> 3])>>,
     <<Row(t1, baseline, [latency_ms |-> 2]), Row(t1, baseline, [latency_ms |-> 2]),
       Row(t1, progressive, [latency_ms |-> 3]), Row(t1, progressive, [latency_ms |-> 3])>>,
     <<Row(t1, baseline, [latency_ms |-> 1]), Row(t1, progressive, [latency_ms |-> 2]),
       Row(t1, baseline, [latency_ms |-> 3]), Row(t1, progressive, [latency_ms |-> 6])>>,
     <<Row(t1, naive, [latency_ms |-> 3]), Row(t1, progressive, [latency_ms |-> 4])>>,
     <<[task_id |-> t1, model |-> ma, judge |-> rule, mode |-> baseline],
       Row(t1, progressive, [latency_ms |-> 4])>>,
     <<Row(t1, baseline, [latency_ms |-> 2, cost_usd |-> 1]),
       Row(t1, progressive, [latency_ms |-> 1])>>,
     <<Row(t2, progressive, [latency_ms |-> 9, cost_usd |-> 1]),
       Row(t2, baseline, [latency_ms |-> 2]),
       Row(t1, progressive, [latency_ms |-> 4, rule_score |-> 0]),
       Row(t1, baseline, [latency_ms |-> 2, rule_score |-> 1, cost_usd |-> 0]),
       Row(t1, naive, [latency_ms |-> 2, cost_usd |-> 3])>>}

InitRegression ==
    /\ config = DefaultInput.config
    /\ options = InputOptions(DefaultInput, 1, 0, FALSE)
    /\ checkpoint_file = NoFile
    /\ NotStarted
    /\ LimiterDisabled
    /\ NoRequests
    /\ rows \in ResultLists
    /\ thresholds \in ThresholdInputs
    /\ analysis = "idle"
    /\ cursor = 0
    /\ comparisons = <<>>
    /\ regressions = <<>>
    /\ report = NoReport

\* The first loop of build_regression_report: the rows are grouped.
Group ==
    /\ analysis = "idle"
    /\ analysis' = "comparing"
    /\ cursor' = 0
    /\ comparisons' = <<>>
    /\ regressions' = <<>>
    /\ UNCHANGED <<rows, thresholds, report>>
    /\ UNCHANGED <<experiment_vars, limiter_vars, request_vars>>

\* One pass of the innermost loop that reaches the comparison: the
\* comparison is appended, and appended to the regressions when flagged.
CompareCell ==
    /\ analysis = "comparing"
    /\ cursor < Len(Cells(rows))
    /\ LET cell == Cells(rows)[cursor + 1] IN
       \E rng \in RandomStreams(cell.baseline_values, cell.candidate_values, thresholds) :
           LET comparison == Comparison(cell, thresholds, rng) IN
               /\ comparisons' = Append(comparisons, comparison)
               /\ regressions' = IF comparison.regression
                                 THEN Append(regressions, comparison)
                                 ELSE regressions
    /\ cursor' = cursor + 1
    /\ UNCHANGED <<rows, thresholds, analysis, report>>
    /\ UNCHANGED <<experiment_vars, limiter_vars, request_vars>>

\* The loops have ended: the report is assembled and returned.
ReturnReport ==
    /\ analysis = "comparing"
    /\ cursor = Len(Cells(rows))
    /\ report' = Report(rows, comparisons, regressions)
    /\ analysis' = "returned"
    /\ UNCHANGED <<rows, thresholds, cursor, comparisons, regressions>>
    /\ UNCHANGED <<experiment_vars, limiter_vars, request_vars>>

NextRegression ==
    \/ Group
    \/ CompareCell
    \/ ReturnReport

SpecRegression == InitRegression /\ [][NextRegression]_vars

-----------------------------------------------------------------------------
(* Vocabulary of the properties *)

Models == ResolveModels(config, options)
Judges == ResolveJudges(config, options)

\* |tasks| * |modes| * |models| * |judges| * repetitions
ProductCount ==
    Len(config.tasks) * Len(config.modes) * Len(Models) * Len(Judges)
        * config.repetitions

\* The cartesian product as a set of 5-tuples.
ProductCases ==
    {ExperimentCase(task_path, mode, model, judge, iteration) :
        task_path \in Range(config.tasks), mode \in Range(config.modes),
        model \in Range(Models), judge \in Range(Judges),
        iteration \in 0..(config.repetitions - 1)}

ProductKeys == {CaseKeyOf(case) : case \in ProductCases}

NoRepeats(list) == \A i, j \in 1..Len(list) : i # j => list[i] # list[j]

StrictlyAscending(list) == \A i, j \in 1..Len(list) : i < j => StrLess(list[i], list[j])

DeclaredListsHaveNoRepeats ==
    NoRepeats(config.tasks) /\ NoRepeats(config.modes) /\ NoRepeats(Models)
        /\ NoRepeats(Judges)

DeclaredListsAscend ==
    StrictlyAscending(config.tasks) /\ StrictlyAscending(config.modes)
        /\ StrictlyAscending(Models) /\ StrictlyAscending(Judges)

Terminal == pc \in {"returned", "raised"}

\* The checkpoint file as the current run found it.
StartFile == previous.file

\* The keys of the complete lines of the file the current run found.
StartLogKeys ==
    {_record_key(StartFile.lines[i].record) :
        i \in {k \in 1..Len(StartFile.lines) : StartFile.lines[k].kind = "json"}}

\* The keys a run takes over from the file: none unless it resumes.
LoadedKeys == IF options.checkpoint_path /\ options.resume THEN StartLogKeys ELSE {}

KeySequence(records) == [i \in 1..Len(records) |-> _record_key(records[i])]

CaseKeySequence(cases) == [i \in 1..Len(cases) |-> CaseKeyOf(cases[i])]

-----------------------------------------------------------------------------
(* C1..C10 *)

\* C1: a run that finds no checkpoint file and whose provider never fails
\* returns, with one record per case of the product, metadata total_cases =
\* executed_cases = the product count and reused_cases = 0, and one
\* checkpoint line per case.
C1_FreshRunReturnsEveryCase ==
    (Terminal /\ ~StartFile.exists /\ ~provider_failed) =>
        /\ pc = "returned"
        /\ Len(results) = ProductCount
        /\ metadata = [total_cases |-> ProductCount, executed_cases |-> ProductCount,
                       reused_cases |-> 0]
        /\ options.checkpoint_path => Len(checkpoint_file.lines) = ProductCount

\* A run that follows a returned run, resumes and has finished.
ResumedAfterCompleteRun ==
    /\ run >= 2
    /\ previous.status = "returned"
    /\ options.checkpoint_path
    /\ options.resume
    /\ Terminal

\* C2 as stated: the resumed run after a complete run executes nothing,
\* reuses total_cases records, returns the same key set and leaves the log
\* as it was.
C2_ResumeCompleteness ==
    ResumedAfterCompleteRun =>
        /\ pc = "returned"
        /\ metadata.executed_cases = 0
        /\ metadata.reused_cases = metadata.total_cases
        /\ KeysOf(results) = previous.keys
        /\ checkpoint_file = StartFile

\* C2: the resumed run after a complete run executes nothing, reuses one
\* record per distinct key of the log (which is total_cases when the log
\* holds only keys of the product and no case is expanded twice), returns
\* the same key set and leaves the log as it was.
C2_ResumeCompletenessAmended ==
    ResumedAfterCompleteRun =>
        /\ pc = "returned"
        /\ metadata.executed_cases = 0
        /\ metadata.reused_cases = Cardinality(StartLogKeys)
        /\ (StartLogKeys \subseteq ProductKeys /\ Cardinality(ProductKeys) = ProductCount)
               => metadata.reused_cases = metadata.total_cases
        /\ KeysOf(results) = previous.keys
        /\ checkpoint_file = StartFile

C2_Witness ==
    /\ ResumedAfterCompleteRun
    /\ pc = "returned"
    /\ Len(results) >= 2
    /\ metadata.reused_cases = metadata.total_cases

\* C3: a resuming run submits to the pool exactly the expanded cases whose
\* key is absent from the checkpoint it loaded: with N expanded cases of
\* which K have their key in the log, N - K cases, and none whose key is
\* present.
C3_ResumeSubmitsExactlyTheMissingCases ==
    (pc \in {"running", "aborting"} /\ options.checkpoint_path /\ options.resume) =>
        /\ Len(futures) = Len(pending_cases)
        /\ \A i \in 1..Len(all_cases) :
               (\E j \in 1..Len(pending_cases) : pending_cases[j] = all_cases[i])
                   <=> CaseKeyOf(all_cases[i]) \notin StartLogKeys
        /\ Len(pending_cases) =
               Len(all_cases)
                   - Cardinality({i \in 1..Len(all_cases) :
                                     CaseKeyOf(all_cases[i]) \in StartLogKeys})
        /\ DeclaredListsHaveNoRepeats =>
               Len(pending_cases) =
                   Len(all_cases) - Cardinality(StartLogKeys \cap ProductKeys)

C3_Witness ==
    /\ pc = "running"
    /\ options.checkpoint_path /\ options.resume
    /\ Len(all_cases) = 2
    /\ Cardinality(StartLogKeys \cap ProductKeys) = 1
    /\ Len(futures) = 1
    /\ futures[1].state # "queued"

\* C4: no two records of a returned result list have the same identity key.
C4_NoDuplicateKeys ==
    pc = "returned" =>
        \A i, j \in 1..Len(results) :
            i # j => _record_key(results[i]) # _record_key(results[j])

C4_Witness ==
    /\ pc = "returned"
    /\ Len(results) >= 1
    /\ \E i, j \in 1..Len(StartFile.lines) :
           /\ i < j
           /\ StartFile.lines[i].kind = "json"
           /\ StartFile.lines[j].kind = "json"
           /\ _record_key(StartFile.lines[i].record) = _record_key(StartFile.lines[j].record)

\* C5 as stated: the keys of the returned records are exactly the keys of
\* the cartesian product, whatever the checkpoint held.
C5_KeysAreExactlyTheProduct ==
    pc = "returned" => KeysOf(results) = ProductKeys

\* C5: no key of the product is missing from the returned records, and every
\* returned key is a key of the product or a key loaded from the checkpoint;
\* so the key set is exactly the product when the loaded log holds no key
\* outside the product.
C5_KeysCoverTheProduct ==
    pc = "returned" =>
        /\ ProductKeys \subseteq KeysOf(results)
        /\ KeysOf(results) \subseteq (ProductKeys \cup LoadedKeys)
        /\ LoadedKeys \subseteq ProductKeys => KeysOf(results) = ProductKeys

C5_Witness ==
    /\ pc = "returned"
    /\ LoadedKeys \subseteq ProductKeys
    /\ Cardinality(ProductKeys) >= 2
    /\ KeysOf(results) = ProductKeys

C8_ExpansionCountAndNoRepeat ==
    all_cases # <<>> =>
        /\ Len(all_cases) = ProductCount
        /\ NoRepeats(all_cases)

\* C8: expansion yields the product count of cases for every content of the
\* lists, and no 5-tuple twice when no declared list repeats an entry.
C8_ExpansionCountAndNoRepeatOfDistinctLists ==
    all_cases # <<>> =>
        /\ Len(all_cases) = ProductCount
        /\ DeclaredListsHaveNoRepeats => NoRepeats(all_cases)
        /\ DeclaredListsHaveNoRepeats => Range(all_cases) = ProductCases

C8_Witness ==
    /\ all_cases # <<>>
    /\ DeclaredListsHaveNoRepeats
    /\ Len(config.tasks) = 2 /\ Len(config.modes) = 3 /\ Len(Models) = 2
    /\ Len(Judges) = 2 /\ config.repetitions = 2
    /\ Len(all_cases) = 48

\* C9: the expanded list is fixed by the configuration: the case of the
\* ti-th task, mi-th mode, ki-th model, ji-th judge and iteration it stands
\* at position ((((ti-1)*M + mi-1)*K + ki-1)*J + ji-1)*R + it + 1, task
\* outermost and iteration innermost, each in declared order.
C9_ExpansionOrder ==
    all_cases # <<>> =>
        LET M == Len(config.modes)
            K == Len(Models)
            J == Len(Judges)
            R == config.repetitions
        IN  /\ Len(all_cases) = Len(config.tasks) * M * K * J * R
            /\ \A ti \in 1..Len(config.tasks), mi \in 1..M, ki \in 1..K, ji \in 1..J,
                  it \in 0..(R - 1) :
                   all_cases[((((ti - 1) * M + (mi - 1)) * K + (ki - 1)) * J + (ji - 1)) * R
                                 + it + 1]
                       = ExperimentCase(config.tasks[ti], config.modes[mi], Models[ki],
                                        Judges[ji], it)

C9_Witness ==
    /\ all_cases # <<>>
    /\ config.tasks = <<t2, t1>>
    /\ config.modes = <<progressive, baseline>>
    /\ Models = <<mb, ma>>
    /\ Judges = <<rule, llm>>
    /\ config.repetitions = 2
    /\ all_cases[1] = ExperimentCase(t2, progressive, mb, rule, 0)
    /\ all_cases[32] = ExperimentCase(t1, baseline, ma, llm, 1)

\* The cases run_benchmark executes, in its loop order.
BenchCases == _expand_cases(config, <<config.model>>, <<config.judge>>)

\* C10: every record produced by executing a case has the identity key of
\* that case: _record_key(record) = _case_key(task, mode, model, judge,
\* iteration).
C10_RecordKeyIsCaseKey ==
    bench_results.status = "returned" =>
        /\ Len(bench_results.records) = Len(BenchCases)
        /\ \A i \in 1..Len(bench_results.records) :
               _record_key(bench_results.records[i]) = CaseKeyOf(BenchCases[i])

-----------------------------------------------------------------------------
(* C11..C20 *)

IsPrefix(a, b) == Len(a) <= Len(b) /\ \A i \in 1..Len(a) : a[i] = b[i]

\* The lines the current run started to append to: the file as it found
\* it when it resumes, nothing when it does not.
BaseLines == IF options.resume THEN StartFile.lines ELSE <<>>

\* The records the current run has collected from its futures.
Collected == SubSeq(results, Len(existing_records) + 1, Len(results))

\* The current run was aborted by the error of a case.
Aborted == pc = "raised" /\ futures # <<>>

HasLineOf(case) ==
    \E k \in 1..Len(checkpoint_file.lines) :
        /\ checkpoint_file.lines[k].kind = "json"
        /\ _record_key(checkpoint_file.lines[k].record) = CaseKeyOf(case)

\* C11: _run_case makes at most retry_attempts + 1 attempts; it raises the
\* error naming the case only when the last of them has failed, so a
\* failure of an earlier attempt is not surfaced; and an attempt that
\* succeeds ends the case with its record.
C11_RunCaseFailsOnlyAfterExhaustingRetries ==
    \A i \in 1..Len(futures) :
        /\ futures[i].attempt <= options.retry_attempts
        /\ futures[i].state = "failed" =>
               /\ futures[i].error = "RuntimeError"
               /\ futures[i].attempt = options.retry_attempts
        /\ futures[i].state = "done" =>
               _record_key(futures[i].record) = CaseKeyOf(pending_cases[i])

C11_Witness ==
    \E i \in 1..Len(futures) :
        /\ options.retry_attempts = 1
        /\ futures[i].state = "failed"
        /\ futures[i].attempt = 1
        /\ provider_failed
        /\ futures[i].provider_ok

\* C12: when a case fails unrecoverably run_experiment raises and returns
\* nothing, the log then holds every line the run started from followed by
\* one line per record it collected, and the resumed run that follows
\* loads the log without error, reuses the record of every line and
\* submits no case whose key is in the log.
C12_AbortedRunLeavesLogReusable ==
    /\ (Aborted /\ options.checkpoint_path) =>
           /\ metadata = NoMetadata
           /\ checkpoint_file.exists
           /\ checkpoint_file.lines =
                  BaseLines \o [j \in 1..Len(Collected) |-> JsonLine(Collected[j])]
    /\ (run >= 2 /\ previous.aborted /\ options.checkpoint_path /\ options.resume) =>
           /\ pc = "raised" => futures # <<>>
           /\ \A k \in 1..Len(StartFile.lines) :
                  StartFile.lines[k].kind = "json" =>
                      LET key == _record_key(StartFile.lines[k].record) IN
                      /\ key \in KeysOf(existing_records)
                      /\ \A j \in 1..Len(pending_cases) :
                             CaseKeyOf(pending_cases[j]) # key
                      /\ \A j \in 1..Len(futures) :
                             CaseKeyOf(pending_cases[j]) # key

C12_Witness ==
    /\ run >= 2
    /\ previous.aborted
    /\ options.checkpoint_path /\ options.resume
    /\ Len(StartFile.lines) >= 1
    /\ Len(existing_records) = 1
    /\ Len(all_cases) = 2
    /\ Len(futures) = 1
    /\ Aborted

C14_SlotsAreAnIntervalApart ==
    _interval > 0 =>
        \A i, j \in 1..Len(slots) :
            i < j => slots[j] - slots[i] >= (j - i) * _interval

C14_Witness ==
    /\ _interval = 2
    /\ Len(slots) >= 3
    /\ slots[2] - slots[1] = 2
    /\ \E t \in Threads : callers[t].pc = "sleeping"
    /\ \E t \in Threads : callers[t].pc = "lock"

\* C15: run_experiment given a configuration that validate_config rejects
\* fails before any case is submitted, before any provider call and before
\* any checkpoint line is written.
C15_InvalidConfigFailsBeforeExecution ==
    (run >= 1 /\ ~validate_config(config)) =>
        /\ pc = "raised"
        /\ futures = <<>>
        /\ ~provider_called
        /\ checkpoint_file = StartFile

\* The file with its empty and malformed lines taken out.
WellFormedLines ==
    SelectSeq(checkpoint_file.lines, LAMBDA line : line.kind = "json")

\* C16: _load_checkpoint skips every malformed, partial or empty line
\* without raising and returns the records of the well-formed lines.
C16_LoadSkipsMalformedLines ==
    pc # "idle" =>
        /\ pc = "returned"
        /\ existing_records = _load_checkpoint(WellFormedLines).records
        /\ completed_keys = _load_checkpoint(WellFormedLines).keys

\* The line of the file the i-th returned record was read from: the first
\* line that holds a record with its key.
FirstLineOf(key) ==
    CHOOSE k \in 1..Len(checkpoint_file.lines) :
        /\ checkpoint_file.lines[k].kind = "json"
        /\ _record_key(checkpoint_file.lines[k].record) = key
        /\ \A h \in 1..(k - 1) :
               checkpoint_file.lines[h].kind = "json" =>
                   _record_key(checkpoint_file.lines[h].record) # key

\* C17: the records _load_checkpoint returns have pairwise distinct keys,
\* the returned key set is the set of their keys and holds the key of every
\* record line, each returned record is the one of the earliest line with
\* its key, and the records stand in the order of those lines.
C17_LoadKeepsFirstOccurrence ==
    pc = "returned" =>
        /\ \A i, j \in 1..Len(existing_records) :
               i # j => _record_key(existing_records[i]) # _record_key(existing_records[j])
        /\ completed_keys = KeysOf(existing_records)
        /\ completed_keys = KeysOf([k \in 1..Len(WellFormedLines) |->
                                       WellFormedLines[k].record])
        /\ \A i \in 1..Len(existing_records) :
               checkpoint_file.lines[FirstLineOf(_record_key(existing_records[i]))]
                   = JsonLine(existing_records[i])
        /\ \A i, j \in 1..Len(existing_records) :
               i < j => FirstLineOf(_record_key(existing_records[i]))
                            < FirstLineOf(_record_key(existing_records[j]))

C17_Witness ==
    /\ pc = "returned"
    /\ Len(checkpoint_file.lines) = 3
    /\ Len(existing_records) = 2
    /\ checkpoint_file.lines[1] # checkpoint_file.lines[3]
    /\ checkpoint_file.lines[1].kind = "json"
    /\ checkpoint_file.lines[3].kind = "json"
    /\ _record_key(checkpoint_file.lines[1].record)
           = _record_key(checkpoint_file.lines[3].record)
    /\ existing_records[1] = checkpoint_file.lines[1].record

\* C18: a run that resumes, or has no checkpoint path, removes and rewrites
\* no line the file held; a run that does not resume and finds a file
\* empties it before any case executes and reuses no record of it, so the
\* log holds only the lines of the records the run collected.
C18_TruncatedOnlyWithoutResume ==
    run >= 1 =>
        /\ options.resume => IsPrefix(StartFile.lines, checkpoint_file.lines)
        /\ ~options.checkpoint_path => checkpoint_file = StartFile
        /\ (options.checkpoint_path /\ ~options.resume /\ StartFile.exists) =>
               /\ existing_records = <<>>
               /\ metadata.reused_cases = 0
               /\ checkpoint_file.lines =
                      [j \in 1..Len(results) |-> JsonLine(results[j])]
               /\ (\A i \in 1..Len(futures) : futures[i].state = "queued")
                      => checkpoint_file.lines = <<>>

C18_Witness ==
    /\ run >= 1
    /\ options.checkpoint_path /\ ~options.resume
    /\ \E k \in 1..Len(StartFile.lines) : StartFile.lines[k].kind = "json"
    /\ checkpoint_file = File(<<>>)
    /\ futures # <<>>
    /\ \A i \in 1..Len(futures) : futures[i].state = "queued"

C20_WriterClosedOnEveryPath ==
    /\ Terminal => writer # "open"
    /\ (Terminal /\ options.checkpoint_path /\ (pc = "returned" \/ futures # <<>>))
           => writer = "closed"
    /\ pc \in {"running", "aborting"} =>
           (writer = "open" <=> options.checkpoint_path)

C20_Witness ==
    /\ Aborted
    /\ options.checkpoint_path
    /\ writer = "closed"
    /\ \E i \in 1..Len(futures) : i \notin yielded

-----------------------------------------------------------------------------
(* Vocabulary of the regression properties *)

Compared == 1..Len(comparisons)

\* p_value <= alpha
PValueWithinAlpha(c) == Leq(c.p_value, thresholds.alpha)

\* |effect_size| >= min_effect_size, on the signed squares
EffectAdequate(c) ==
    Leq(Mul(thresholds.min_effect_size, abs(thresholds.min_effect_size)),
        abs(c.effect_size))

\* delta_pct is defined and at least the percentage threshold
PercentageReached(c, pct) == c.delta_pct # None /\ Leq(pct, c.delta_pct)

\* The (group, mode, metric) cell of a row that has the metric.
HasSample(group, mode, metric) ==
    \E i \in 1..Len(rows) :
        /\ GroupOf(rows[i]) = group
        /\ ModeOf(rows[i]) = mode
        /\ metric \in DOMAIN rows[i]

RowCells ==
    {<<GroupOf(rows[i]), ModeOf(rows[i]), metric>> :
        i \in 1..Len(rows), metric \in Range(metrics)}

\* Cells of a mode other than the baseline mode with a sample of the
\* metric on both sides.
EligibleCells ==
    {cell \in RowCells :
        /\ cell[2] # baseline
        /\ HasSample(cell[1], baseline, cell[3])
        /\ HasSample(cell[1], cell[2], cell[3])}

CellOf(c) == <<<<c.task_id, c.model, c.judge>>, c.candidate_mode, c.metric>>

-----------------------------------------------------------------------------
\* C21: a latency (cost) comparison is flagged exactly when its delta_pct
\* is defined and at least latency_regression_pct (cost_regression_pct),
\* its p-value is at most alpha and its absolute effect size is at least
\* min_effect_size; a rule-score comparison is flagged exactly when its
\* delta is at most -rule_score_drop and the same two conditions hold.
C21_VerdictIsAndGated ==
    \A i \in Compared :
        LET c == comparisons[i] IN
        /\ c.metric = "latency_ms" =>
              (c.regression <=>
                  /\ PercentageReached(c, thresholds.latency_regression_pct)
                  /\ PValueWithinAlpha(c)
                  /\ EffectAdequate(c))
        /\ c.metric = "cost_usd" =>
              (c.regression <=>
                  /\ PercentageReached(c, thresholds.cost_regression_pct)
                  /\ PValueWithinAlpha(c)
                  /\ EffectAdequate(c))
        /\ c.metric = "rule_score" =>
              (c.regression <=>
                  /\ Leq(c.delta, Neg(thresholds.rule_score_drop))
                  /\ PValueWithinAlpha(c)
                  /\ EffectAdequate(c))

\* A report under construction holds a latency comparison that meets the
\* three conditions and is flagged, and one that is significant with an
\* adequate effect size, stays below the percentage threshold and is not
\* flagged.
C21_Witness ==
    \E i, j \in Compared :
        LET c == comparisons[i]
            d == comparisons[j]
        IN  /\ c.metric = "latency_ms"
            /\ PercentageReached(c, thresholds.latency_regression_pct)
            /\ PValueWithinAlpha(c)
            /\ EffectAdequate(c)
            /\ c.regression
            /\ d.metric = "latency_ms"
            /\ ~PercentageReached(d, thresholds.latency_regression_pct)
            /\ PValueWithinAlpha(d)
            /\ EffectAdequate(d)
            /\ ~d.regression

-----------------------------------------------------------------------------
\* C22: the permutation p-value is always strictly positive, and is 1.0
\* when at most one permutation is requested; so with alpha = 0.0 no
\* comparison is flagged, whatever the samples, the delta and the
\* permutation count.
C22_ZeroAlphaNeverFlags ==
    /\ \A i \in Compared :
          /\ ~Leq(comparisons[i].p_value, float(0))
          /\ thresholds.permutation_samples <= 1 => comparisons[i].p_value = float(1)
    /\ thresholds.alpha = float(0) =>
          /\ \A i \in Compared : ~comparisons[i].regression
          /\ regressions = <<>>
          /\ analysis = "returned" => report.passed

\* Under alpha = 0.0 a latency comparison has doubled the baseline mean,
\* has an adequate effect size and a p-value below 1.0 from two
\* permutations, and is not flagged.
C22_Witness ==
    /\ thresholds.alpha = float(0)
    /\ thresholds.permutation_samples > 1
    /\ \E i \in Compared :
          LET c == comparisons[i] IN
          /\ PercentageReached(c, thresholds.latency_regression_pct)
          /\ EffectAdequate(c)
          /\ c.p_value # float(1)
          /\ ~c.regression

-----------------------------------------------------------------------------
\* C23: the returned report has passed true exactly when regression_count
\* is 0, its two counts are the lengths of its two lists, and its
\* regressions are the comparisons flagged as regression, in their order.
C23_ReportIsConsistent ==
    analysis = "returned" =>
        /\ report.passed <=> (report.regression_count = 0)
        /\ report.regression_count = Len(report.regressions)
        /\ report.comparison_count = Len(report.comparisons)
        /\ report.regressions = SelectSeq(report.comparisons, LAMBDA c : c.regression)

\* build_regression_report has returned a report that did not pass, with
\* a flagged comparison behind one that is not flagged.
C23_Witness ==
    /\ analysis = "returned"
    /\ ~report.passed
    /\ report.regression_count >= 2
    /\ report.comparison_count > report.regression_count
    /\ ~report.comparisons[1].regression

-----------------------------------------------------------------------------
\* C24: the effect size of a comparison is zero whenever the candidate or
\* the baseline sample has fewer than 2 points.
C24_EffectSizeZeroBelowTwoPoints ==
    \A i \in Compared :
        (comparisons[i].n_candidate < 2 \/ comparisons[i].n_baseline < 2)
            => comparisons[i].effect_size = float(0)

-----------------------------------------------------------------------------
\* C25: a comparison is emitted only for a cell of a mode other than the
\* baseline mode whose group has a sample of the metric under the baseline
\* mode and under that mode, at most once per cell, and the returned
\* report has one for every such cell.
C25_OneComparisonPerEligibleCell ==
    /\ \A i \in Compared : CellOf(comparisons[i]) \in EligibleCells
    /\ \A i, j \in Compared : i # j => CellOf(comparisons[i]) # CellOf(comparisons[j])
    /\ analysis = "returned" =>
          /\ \A cell \in EligibleCells :
                \E i \in 1..Len(report.comparisons) : CellOf(report.comparisons[i]) = cell
          /\ report.comparison_count = Cardinality(EligibleCells)

\* The report is returned with comparisons of two groups while a candidate
\* metric without baseline samples in its group has none.
C25_Witness ==
    /\ analysis = "returned"
    /\ \E i, j \in 1..Len(report.comparisons) :
          report.comparisons[i].task_id # report.comparisons[j].task_id
    /\ \E cell \in RowCells \ EligibleCells :
          /\ cell[2] # baseline
          /\ ~HasSample(cell[1], baseline, cell[3])
          /\ \A i \in 1..Len(report.comparisons) : CellOf(report.comparisons[i]) # cell

-----------------------------------------------------------------------------
\* C26: a comparison whose baseline mean is 0 is emitted with delta_pct
\* None, and a latency or cost comparison without delta_pct is not
\* flagged.
C26_ZeroBaselineMeanOmitsPercentage ==
    /\ \A i \in Compared :
          LET c == comparisons[i] IN
          /\ c.baseline_mean = float(0) <=> c.delta_pct = None
          /\ (c.delta_pct = None /\ c.metric \in {"latency_ms", "cost_usd"})
                => ~c.regression
    /\ analysis = "returned" =>
          \A cell \in EligibleCells :
              fmean(Samples(rows, cell[1], baseline, cell[3])) = float(0) =>
                  \E i \in 1..Len(report.comparisons) :
                      /\ CellOf(report.comparisons[i]) = cell
                      /\ report.comparisons[i].delta_pct = None

\* The report is returned with a latency comparison over a baseline mean
\* of 0: the candidate mean is above it, the comparison is significant and
\* its effect size adequate, its delta_pct is None and it is not flagged.
C26_Witness ==
    /\ analysis = "returned"
    /\ \E i \in 1..Len(report.comparisons) :
          LET c == report.comparisons[i] IN
          /\ c.metric = "latency_ms"
          /\ c.baseline_mean = float(0)
          /\ ~Leq(c.candidate_mean, float(0))
          /\ c.delta_pct = None
          /\ PValueWithinAlpha(c)
          /\ EffectAdequate(c)
          /\ ~c.regression

-----------------------------------------------------------------------------
\* C30: the bootstrap confidence interval of every comparison is ordered,
\* ci_low <= ci_high.
C30_IntervalIsOrdered ==
    \A i \in Compared : Leq(comparisons[i].ci_low, comparisons[i].ci_high)

-----------------------------------------------------------------------------
\* C27: the k-th failed attempt of a case (k from 0) that has a retry left
\* is followed by a sleep of min(2.0, 0.25 * 2^k) seconds, 0.25, 0.5, 1.0,
\* 2.0, 2.0, ...: the sleeps of a case never decrease and never exceed
\* 2.0 s, a case in its attempt k has slept k times, and a case that failed
\* for good has slept once per retry, not after its last attempt.
BackoffSchedule == <<250, 500, 1000, 2000, 2000, 2000, 2000>>

C27_BackoffSchedule ==
    \A i \in 1..Len(futures) :
        futures[i].state \in {"running", "done", "failed"} =>
            LET slept == futures[i].slept IN
            /\ Len(slept) = futures[i].attempt
            /\ \A k \in 1..Len(slept) :
                  /\ slept[k] = BackoffSchedule[k]
                  /\ slept[k] <= 2000
                  /\ k > 1 => slept[k - 1] <= slept[k]
            /\ (futures[i].state = "failed" /\ futures[i].error = "RuntimeError")
                  => Len(slept) = options.retry_attempts

\* A case has failed for good after five retries, having slept 0.25, 0.5,
\* 1.0, 2.0 and 2.0 seconds.
C27_Witness ==
    \E i \in 1..Len(futures) :
        /\ futures[i].state = "failed"
        /\ futures[i].error = "RuntimeError"
        /\ futures[i].attempt = 5
        /\ futures[i].slept = <<250, 500, 1000, 2000, 2000>>

-----------------------------------------------------------------------------
\* C28 as stated: whenever run_experiment returns, executed_cases +
\* reused_cases = total_cases = the number of returned records, whatever
\* the checkpoint file held at the start.
C28_MetadataAddsUpToTotal ==
    pc = "returned" =>
        /\ metadata.executed_cases + metadata.reused_cases = metadata.total_cases
        /\ metadata.total_cases = Len(results)

\* C28: whenever run_experiment returns, executed_cases + reused_cases is
\* the number of returned records and total_cases the number of expanded
\* cases; the two are equal when every key loaded from the checkpoint is a
\* key of the product and no case is expanded twice.
C28_MetadataAddsUpToRecords ==
    pc = "returned" =>
        /\ metadata.executed_cases + metadata.reused_cases = Len(results)
        /\ metadata.total_cases = ProductCount
        /\ (LoadedKeys \subseteq ProductKeys /\ Cardinality(ProductKeys) = ProductCount)
               => metadata.total_cases = Len(results)

\* The first run over a log left by an earlier process returns two
\* records, both reused, for its two expanded cases.
C28_Witness ==
    /\ pc = "returned"
    /\ run = 1
    /\ metadata.total_cases = 2
    /\ metadata.reused_cases = 2
    /\ metadata.executed_cases = 0
    /\ Len(results) = 2
    /\ LoadedKeys = ProductKeys

-----------------------------------------------------------------------------
(* Vocabulary of the request properties *)

RequestsOf(t, kinds) ==
    {i \in 1..Len(requests) : requests[i].thread = t /\ requests[i].kind \in kinds}

\* The number of the request among the requests of its thread.
RequestNumber(i, kinds) ==
    Cardinality({j \in RequestsOf(requests[i].thread, kinds) : j <= i})

-----------------------------------------------------------------------------
\* C29 as stated: every inference request, that of the LLM judge included,
\* comes after a wait() call of its own, and with qps > 0 no two requests
\* are issued less than 1/qps apart.
C29_EveryRequestWaits ==
    /\ \A i \in 1..Len(requests) :
          requests[i].waits >= RequestNumber(i, {"case", "judge"})
    /\ _interval > 0 =>
          \A i, j \in 1..Len(requests) :
              i < j => requests[j].at - requests[i].at >= _interval

\* C29: every provider.infer(prompt) call of _run_case comes after a
\* wait() call of its own and, with qps > 0, at or after the slot that
\* call was granted; the request of the LLM judge comes after no wait() of
\* its own, the thread having waited once per case request only.
C29_CaseRequestsWait ==
    /\ \A i \in 1..Len(requests) :
          /\ requests[i].waits = RequestNumber(i, {"case"})
          /\ (requests[i].kind = "case" /\ _interval > 0)
                => requests[i].at >= requests[i].slot
    /\ \A t \in Threads :
          /\ Cardinality(RequestsOf(t, {"case"})) = workers[t].inferred
          /\ Cardinality(RequestsOf(t, {"judge"})) <= Cardinality(workers[t].finished)
          /\ callers[t].calls \in {workers[t].inferred, workers[t].inferred + 1}

\* With qps > 0 both threads have sent their case request after waiting,
\* the second at or after its slot an interval behind the first, and one
\* thread has sent the request of the LLM judge at the time of its case
\* request.
C29_Witness ==
    /\ _interval > 0
    /\ \E i, j, k \in 1..Len(requests) :
          /\ requests[i].kind = "case"
          /\ requests[j].kind = "case"
          /\ requests[i].thread # requests[j].thread
          /\ requests[j].slot >= requests[i].slot + _interval
          /\ requests[j].at >= requests[j].slot
          /\ requests[k].kind = "judge"
          /\ requests[k].thread = requests[i].thread
          /\ requests[k].at = requests[i].at

====
